---- MODULE Spec2Model ----
(***************************************************************************)
(* The keyshare server core (internal/keysharecore/operations.go): user    *)
(* secrets sealed in blobs, PIN-authenticated access tokens bound to the   *)
(* blob's token-id, challenge-response authentication, PIN change, public  *)
(* key registration and the two-phase proof participation.                 *)
(*                                                                         *)
(* Random draws (rand.Read of 32 bytes, the 64-bit commit id) are modelled *)
(* as fresh values taken from counters: a draw never repeats an earlier    *)
(* one.  Signatures are symbolic: a signature records the key that made it *)
(* and the data it covers, and verifies only under that key and that data. *)
(***************************************************************************)
EXTENDS Integers, FiniteSets, Sequences, TLC

\* ------------------------------------------------------------------ bounds
\* The clock runs from 0 to MaxTime (seconds).
MaxTime == 2
\* Number of token-ids that rand.Read may hand out (two are in use at start).
MaxIDs == 3
\* Number of auth challenges that rand.Read may hand out.
MaxChallenges == 1
\* Number of further auth challenges where challenges are issued anew.
MaxReissues == 1
\* Number of access tokens that may be minted.
MaxTokens == 2
\* Number of commit ids that may be drawn.
MaxCommits == 2
\* PIN tries a user has before being blocked.
MaxPinTries == 2
\* Number of PIN operations that may be refused for blocked users.
MaxRefusals == 1

\* ------------------------------------------------------- program constants
\* c.jwtPinExpiry: lifetime of an access token in seconds (configuration).
jwtPinExpiry == 2
\* gabikeys.DefaultSystemParameters[1024].Lh: bit length of a proof challenge.
Lh == 256
\* The time a blocked user must wait, in seconds, as the DB reports it.
WaitSeconds == 5

\* ---------------------------------------------------------------- domains
Users == {"legacyuser", "testusername", ""}
\* PINs clients may send; TooLongPin stands for a PIN longer than the PIN field.
TestPin == "12345"
OtherPin == "54321"
TooLongPin == "pin-of-65-bytes"
Pins == {TestPin, OtherPin, TooLongPin}
\* Client ECDSA keys; NoKey is the nil *ecdsa.PublicKey.
NoKey == "nil"
ClientKey == "client-ecdsa"
OtherKey == "other-ecdsa"
ClientKeys == {ClientKey, OtherKey}
\* The server's RSA key pair for tokens, and a key that is not the server's.
jwtPrivateKey == "kss-sk"
ForeignKey == "not-kss-sk"
\* Idemix public key identifiers; trustedKeys are the ones the core trusts.
trustedKeys == {"test.test-3"}
KeyIDs == {"test.test-3", "test.untrusted-1"}

IDs == 1..MaxIDs
Challenges == 1..(MaxChallenges + MaxReissues)
CommitIDs == 1..MaxCommits
\* The absent map entry (a nil []byte) and the absent claim.
Nil == 0
Procs == {"h1", "h2"}
KeyIDLists == {{"test.test-3"}, {"test.test-3", "test.unknown"}}
NoClaim == -1

\* ----------------------------------------------------------------- errors
OK == "nil"
ErrInvalidPin == "invalid pin"
ErrPinTooLong == "pin too long"
ErrInvalidChallenge == "challenge out of bounds"
ErrInvalidJWT == "invalid jwt token"
ErrExpiredJWT == "jwt expired"
ErrKeyNotFound == "public key not found"
ErrUnknownCommit == "unknown commit id"
ErrChallengeResponseRequired == "challenge-response authentication required"
ErrNoPublicKey == "can't do challenge-response: no public key associated to account"
ErrHasPublicKey == "user already has public key"
\* Errors of the collaborators: unsealing a blob, verifying a signature or a JWT.
ErrDecrypt == "decryption failed"
ErrSignature == "signature invalid"
ErrJWTParse == "jwt: token invalid"

VARIABLES
    db,              \* DB: username -> the stored secrets blob (User.Secrets)
    authChallenges,  \* c.authChallenges: token-id -> outstanding challenge
    commitmentData,  \* c.commitmentData: commit id -> commit secret
    now,             \* time.Now().Unix()
    nextID,          \* next fresh token-id rand.Read yields
    nextChallenge,   \* next fresh challenge rand.Read yields
    nextCommit,      \* next fresh commit id rand.Reader yields
    minted,          \* tokens signed by the server so far, each with the call that
                     \* returned it, its user, the number of that user's PIN changes
                     \* and the client key in the secrets it was minted from
    pinEpoch,        \* per user: number of successful PIN changes
    fetched,         \* per challenge: how often c.challenge returned it
    procs,           \* GenerateResponse calls in flight, per handler
    succ,            \* per commit id: number of GenerateResponse calls that returned a ProofP
    pinGuard         \* the DB's PIN-retry state: tries left per user (0: blocked), and
                     \* the number of PIN operations refused for a blocked user

vars == <<db, authChallenges, commitmentData, now, nextID, nextChallenge, nextCommit,
          minted, pinEpoch, fetched, procs, succ, pinGuard>>

\* --------------------------------------------------------- secrets (blobs)
\* unencryptedUserSecrets: Pin, KeyshareSecret, ID, PublicKey.
NoSecrets == [Pin |-> "", KeyshareSecret |-> 0, ID |-> 0, PublicKey |-> NoKey]

\* A sealed blob unseals to the secrets it was sealed from.
encryptUserSecrets(s) == [sealed |-> TRUE, s |-> s]

\* UserSecrets{}: bytes that are no sealed blob (the user "" of createDB).
EmptyBlob == [sealed |-> FALSE, s |-> NoSecrets]

decryptUserSecrets(secrets) ==
    IF secrets.sealed THEN [err |-> OK, s |-> secrets.s]
                      ELSE [err |-> ErrDecrypt, s |-> NoSecrets]

\* The PIN field is fixed-width: a longer PIN is refused.
setPin(s, pin) ==
    IF pin = TooLongPin THEN [err |-> ErrPinTooLong, s |-> s]
                        ELSE [err |-> OK, s |-> [s EXCEPT !.Pin = pin]]

setID(s, id) == [s EXCEPT !.ID = id]

verifyPin(s, pin) == IF pin # TooLongPin /\ s.Pin = pin THEN OK ELSE ErrInvalidPin

decryptUserSecretsIfPinOK(secrets, pin) ==
    LET d == decryptUserSecrets(secrets) IN
    IF d.err # OK THEN d
    ELSE IF verifyPin(d.s, pin) # OK THEN [err |-> ErrInvalidPin, s |-> NoSecrets]
    ELSE d

\* ------------------------------------------------------------------ tokens
\* A JWT: the algorithm of its header, the key whose signature it carries, and
\* its claims.  alg "malformed" is a string that is no JWT ("fakeauthorization").
\* The token_id claim is absent, not a string, or a string that is or is not
\* base64.
NoTokenID == [kind |-> "absent", val |-> 0]
NoJWT == [alg |-> "none", key |-> "none", sub |-> "", iat |-> NoClaim, exp |-> NoClaim,
          token_id |-> NoTokenID]
MalformedJWT == [NoJWT EXCEPT !.alg = "malformed"]

b64Encode(id) == [kind |-> "base64", val |-> id]
b64Decode(claim) ==
    IF claim.kind = "base64" THEN [err |-> OK, val |-> claim.val]
                             ELSE [err |-> ErrJWTParse, val |-> 0]

\* authJWT putting the raw ID bytes in the token_id claim, not their base64.
authJWTRawID(s) ==
    [alg |-> "RS256", key |-> jwtPrivateKey, sub |-> "auth_tok", iat |-> now,
     exp |-> now + jwtPinExpiry, token_id |-> [kind |-> "notbase64", val |-> s.ID]]

\* authJWT: an RS256 token over the secrets' ID, valid for jwtPinExpiry seconds.
authJWT(s) ==
    [alg |-> "RS256", key |-> jwtPrivateKey, sub |-> "auth_tok", iat |-> now,
     exp |-> now + jwtPinExpiry, token_id |-> b64Encode(s.ID)]

\* MapClaims.VerifyExpiresAt(t, required): an absent exp passes unless required.
VerifyExpiresAt(claims, t, required) ==
    IF claims.exp = NoClaim THEN ~required ELSE t < claims.exp

\* MapClaims.Valid() at time t: exp and iat, neither required.
claimsValid(claims, t) ==
    /\ VerifyExpiresAt(claims, t, FALSE)
    /\ (claims.iat = NoClaim \/ claims.iat <= t)

\* jwt.Parse with verifyAccess's key function, at time t: the key function
\* refuses any method but RS256; the parser then validates the claims
\* (Valid(), which checks exp) and the signature under the server's key.
jwtParse(token, t) ==
    /\ token.alg # "malformed"
    /\ token.alg = "RS256"
    /\ claimsValid(token, t)
    /\ token.key = jwtPrivateKey

\* verifyAccess.  The clock is read three times: by jwt.Parse (t1), by
\* claims.Valid() (t2) and by VerifyExpiresAt (t3).
verifyAccess(secrets, jwtToken, t1, t2, t3) ==
    LET bad(e) == [err |-> e, s |-> NoSecrets] IN
    IF ~jwtParse(jwtToken, t1) THEN bad(ErrInvalidJWT)
    ELSE IF ~claimsValid(jwtToken, t2) THEN bad(ErrInvalidJWT)
    ELSE IF ~VerifyExpiresAt(jwtToken, t3, TRUE) THEN bad(ErrExpiredJWT)
    ELSE IF jwtToken.token_id.kind = "absent" THEN bad(ErrInvalidJWT)
    ELSE IF jwtToken.token_id.kind = "notstring" THEN bad(ErrInvalidJWT)
    ELSE IF b64Decode(jwtToken.token_id).err # OK THEN bad(ErrInvalidJWT)
    ELSE LET d == decryptUserSecrets(secrets) IN
         IF d.err # OK THEN bad(d.err)
         ELSE IF d.s.ID # b64Decode(jwtToken.token_id).val THEN bad(ErrInvalidJWT)
         ELSE [err |-> OK, s |-> d.s]

\* ValidateJWT: verifyAccess without the secrets.
ValidateJWT(secrets, jwt, t1, t2, t3) == verifyAccess(secrets, jwt, t1, t2, t3).err

\* ------------------------------------------------------- challenge-response
\* A client's response: an ECDSA signature by `key` over the JSON of
\* KeyshareChallengeData{Challenge, PIN}.  EmptyResponse is the empty []byte.
EmptyResponse == [key |-> NoKey, challenge |-> Nil, pin |-> ""]

\* signed.Verify(pk, {challenge, pin}, response)
signedVerify(pk, chal, pin, response) ==
    IF /\ pk # NoKey
       /\ response.key = pk
       /\ response.challenge = chal
       /\ response.pin = pin
    THEN OK ELSE ErrSignature

\* c.challenge without the delete.
challengeNoDelete(chals, id) ==
    [challenge |-> IF id \in DOMAIN chals THEN chals[id] ELSE Nil, chals |-> chals]

\* c.challenge falling back on a challenge stored under another ID.
challengeAnyID(chals, id) ==
    LET i == IF id \in DOMAIN chals \/ DOMAIN chals = {} THEN id
             ELSE CHOOSE x \in DOMAIN chals : TRUE IN
    [challenge |-> IF i \in DOMAIN chals THEN chals[i] ELSE Nil,
     chals |-> [x \in DOMAIN chals \ {i} |-> chals[x]]]

\* c.challenge(id): look the challenge up and delete it, under the mutex.
challenge(chals, id) ==
    [challenge |-> IF id \in DOMAIN chals THEN chals[id] ELSE Nil,
     chals |-> [i \in DOMAIN chals \ {id} |-> chals[i]]]

\* verifyChallengeResponse accepting a missing challenge whether or not the
\* secrets hold a key.
verifyChallengeResponseIgnoresKey(chals, s, response, pin) ==
    LET c == challenge(chals, s.ID) IN
    IF c.challenge = Nil
    THEN [err |-> OK, chals |-> c.chals, challenge |-> Nil]
    ELSE [err |-> signedVerify(s.PublicKey, c.challenge, pin, response),
          chals |-> c.chals, challenge |-> c.challenge]

\* verifyChallengeResponse refusing an empty response for secrets with a key
\* before it looks for a challenge.
verifyChallengeResponseKeyFirst(chals, s, response, pin) ==
    LET c == challenge(chals, s.ID) IN
    IF s.PublicKey # NoKey /\ response = EmptyResponse
    THEN [err |-> ErrChallengeResponseRequired, chals |-> chals, challenge |-> Nil]
    ELSE IF c.challenge = Nil
    THEN [err |-> IF s.PublicKey # NoKey THEN ErrChallengeResponseRequired ELSE OK,
          chals |-> c.chals, challenge |-> Nil]
    ELSE [err |-> signedVerify(s.PublicKey, c.challenge, pin, response),
          chals |-> c.chals, challenge |-> c.challenge]

\* verifyChallengeResponse deleting the challenge only once the signature
\* over it has verified.
verifyChallengeResponseKeepsOnFailure(chals, s, response, pin) ==
    LET c == challenge(chals, s.ID)
        e == signedVerify(s.PublicKey, c.challenge, pin, response) IN
    IF c.challenge = Nil
    THEN [err |-> IF s.PublicKey # NoKey THEN ErrChallengeResponseRequired ELSE OK,
          chals |-> c.chals, challenge |-> Nil]
    ELSE IF e # OK THEN [err |-> e, chals |-> chals, challenge |-> Nil]
    ELSE [err |-> OK, chals |-> c.chals, challenge |-> c.challenge]

\* verifyChallengeResponse: the challenge is fetched (and deleted) first; with
\* none outstanding, secrets with a key are refused and secrets without pass.
verifyChallengeResponse(chals, s, response, pin) ==
    LET c == challenge(chals, s.ID) IN
    IF c.challenge = Nil
    THEN [err |-> IF s.PublicKey # NoKey THEN ErrChallengeResponseRequired ELSE OK,
          chals |-> c.chals, challenge |-> Nil]
    ELSE [err |-> signedVerify(s.PublicKey, c.challenge, pin, response),
          chals |-> c.chals, challenge |-> c.challenge]

\* ValidateAuth taking the challenge out of the store before the PIN check.
ValidateAuthChallengeFirst(chals, secrets, response, pin) ==
    LET d == decryptUserSecrets(secrets)
        c == challenge(chals, d.s.ID)
        e == decryptUserSecretsIfPinOK(secrets, pin) IN
    IF d.err # OK
    THEN [err |-> d.err, jwt |-> NoJWT, chals |-> chals, challenge |-> Nil]
    ELSE IF e.err # OK
    THEN [err |-> e.err, jwt |-> NoJWT, chals |-> c.chals, challenge |-> c.challenge]
    ELSE LET v == verifyChallengeResponse(chals, d.s, response, pin) IN
         IF v.err # OK
         THEN [err |-> v.err, jwt |-> NoJWT, chals |-> v.chals, challenge |-> v.challenge]
         ELSE [err |-> OK, jwt |-> authJWT(d.s), chals |-> v.chals,
               challenge |-> v.challenge]

\* ValidateAuth: the PIN check, then the challenge-response, then the token.
ValidateAuth(chals, secrets, response, pin) ==
    LET d == decryptUserSecretsIfPinOK(secrets, pin) IN
    IF d.err # OK
    THEN [err |-> d.err, jwt |-> NoJWT, chals |-> chals, challenge |-> Nil]
    ELSE LET v == verifyChallengeResponse(chals, d.s, response, pin) IN
         IF v.err # OK
         THEN [err |-> v.err, jwt |-> NoJWT, chals |-> v.chals, challenge |-> v.challenge]
         ELSE [err |-> OK, jwt |-> authJWT(d.s), chals |-> v.chals,
               challenge |-> v.challenge]

\* GenerateChallenge leaving an outstanding challenge in place.
GenerateChallengeKeepsFirst(chals, secrets, fresh) ==
    LET d == decryptUserSecrets(secrets) IN
    IF d.err # OK THEN [err |-> d.err, challenge |-> Nil, chals |-> chals]
    ELSE IF d.s.PublicKey = NoKey
    THEN [err |-> ErrNoPublicKey, challenge |-> Nil, chals |-> chals]
    ELSE IF d.s.ID \in DOMAIN chals
    THEN [err |-> OK, challenge |-> chals[d.s.ID], chals |-> chals]
    ELSE [err |-> OK, challenge |-> fresh,
          chals |-> [i \in DOMAIN chals \cup {d.s.ID} |->
                        IF i = d.s.ID THEN fresh ELSE chals[i]]]

\* GenerateChallenge: a fresh challenge stored under the secrets' ID.
GenerateChallenge(chals, secrets, fresh) ==
    LET d == decryptUserSecrets(secrets) IN
    IF d.err # OK THEN [err |-> d.err, challenge |-> Nil, chals |-> chals]
    ELSE IF d.s.PublicKey = NoKey
    THEN [err |-> ErrNoPublicKey, challenge |-> Nil, chals |-> chals]
    ELSE [err |-> OK, challenge |-> fresh,
          chals |-> [i \in DOMAIN chals \cup {d.s.ID} |->
                        IF i = d.s.ID THEN fresh ELSE chals[i]]]

\* ------------------------------------------------- PIN change, registration
\* A change-PIN JWT: KeyshareChangePinClaims signed (ES256) by a client key.
\* jwt.ParseWithClaims verifies it under the key the key function returns.
changePinJWT(key, oldpin, newpin) == [key |-> key, OldPin |-> oldpin, NewPin |-> newpin]

\* ChangePin writing the new PIN but keeping the old ID.
ChangePinKeepsID(secrets, jwtt, freshID) ==
    LET d == decryptUserSecrets(secrets)
        fail(e) == [err |-> e, secrets |-> EmptyBlob] IN
    IF d.err # OK THEN fail(d.err)
    ELSE IF d.s.PublicKey = NoKey THEN fail(ErrKeyNotFound)
    ELSE IF jwtt.key # d.s.PublicKey THEN fail(ErrJWTParse)
    ELSE IF verifyPin(d.s, jwtt.OldPin) # OK THEN fail(ErrInvalidPin)
    ELSE LET p == setPin(d.s, jwtt.NewPin) IN
         IF p.err # OK THEN fail(p.err)
         ELSE [err |-> OK, secrets |-> encryptUserSecrets(p.s)]

\* ChangePin taking the claims of the JWT without verifying its signature.
ChangePinUnverified(secrets, jwtt, freshID) ==
    LET d == decryptUserSecrets(secrets)
        fail(e) == [err |-> e, secrets |-> EmptyBlob] IN
    IF d.err # OK THEN fail(d.err)
    ELSE IF verifyPin(d.s, jwtt.OldPin) # OK THEN fail(ErrInvalidPin)
    ELSE LET p == setPin(d.s, jwtt.NewPin) IN
         IF p.err # OK THEN fail(p.err)
         ELSE [err |-> OK, secrets |-> encryptUserSecrets(setID(p.s, freshID))]

\* ChangePin rotating the ID but leaving the old PIN in place.
ChangePinKeepsPin(secrets, jwtt, freshID) ==
    LET d == decryptUserSecrets(secrets)
        fail(e) == [err |-> e, secrets |-> EmptyBlob] IN
    IF d.err # OK THEN fail(d.err)
    ELSE IF d.s.PublicKey = NoKey THEN fail(ErrKeyNotFound)
    ELSE IF jwtt.key # d.s.PublicKey THEN fail(ErrJWTParse)
    ELSE IF verifyPin(d.s, jwtt.OldPin) # OK THEN fail(ErrInvalidPin)
    ELSE LET p == setPin(d.s, jwtt.NewPin) IN
         IF p.err # OK THEN fail(p.err)
         ELSE [err |-> OK, secrets |-> encryptUserSecrets(setID(d.s, freshID))]

\* ChangePin writing the fresh ID before the new PIN is set, and returning
\* the blob along with the error when the new PIN does not fit.
ChangePinPartialBlob(secrets, jwtt, freshID) ==
    LET d == decryptUserSecrets(secrets)
        fail(e) == [err |-> e, secrets |-> EmptyBlob] IN
    IF d.err # OK THEN fail(d.err)
    ELSE IF d.s.PublicKey = NoKey THEN fail(ErrKeyNotFound)
    ELSE IF jwtt.key # d.s.PublicKey THEN fail(ErrJWTParse)
    ELSE IF verifyPin(d.s, jwtt.OldPin) # OK THEN fail(ErrInvalidPin)
    ELSE LET p == setPin(setID(d.s, freshID), jwtt.NewPin) IN
         [err |-> p.err, secrets |-> encryptUserSecrets(p.s)]

\* ChangePin building the new blob afresh, as NewUserSecrets does, rather than
\* writing into the decrypted secrets.
ChangePinRegenerates(secrets, jwtt, freshID) ==
    LET d == decryptUserSecrets(secrets)
        fail(e) == [err |-> e, secrets |-> EmptyBlob] IN
    IF d.err # OK THEN fail(d.err)
    ELSE IF d.s.PublicKey = NoKey THEN fail(ErrKeyNotFound)
    ELSE IF jwtt.key # d.s.PublicKey THEN fail(ErrJWTParse)
    ELSE IF verifyPin(d.s, jwtt.OldPin) # OK THEN fail(ErrInvalidPin)
    ELSE LET p == setPin(NoSecrets, jwtt.NewPin) IN
         IF p.err # OK THEN fail(p.err)
         ELSE [err |-> OK,
               secrets |-> encryptUserSecrets(
                              setID([p.s EXCEPT !.KeyshareSecret = freshID,
                                                !.PublicKey = d.s.PublicKey], freshID))]

\* ChangePin: the JWT must verify under the stored client key and carry the
\* old PIN; the new PIN and a fresh ID are written.
ChangePin(secrets, jwtt, freshID) ==
    LET d == decryptUserSecrets(secrets)
        fail(e) == [err |-> e, secrets |-> EmptyBlob] IN
    IF d.err # OK THEN fail(d.err)
    ELSE IF d.s.PublicKey = NoKey THEN fail(ErrKeyNotFound)
    ELSE IF jwtt.key # d.s.PublicKey THEN fail(ErrJWTParse)
    ELSE IF verifyPin(d.s, jwtt.OldPin) # OK THEN fail(ErrInvalidPin)
    ELSE LET p == setPin(d.s, jwtt.NewPin) IN
         IF p.err # OK THEN fail(p.err)
         ELSE [err |-> OK, secrets |-> encryptUserSecrets(setID(p.s, freshID))]

\* SetUserPublicKey writing a fresh ID along with the key.
SetUserPublicKeyRotatesID(secrets, pin, pk) ==
    LET d == decryptUserSecretsIfPinOK(secrets, pin)
        fail(e) == [err |-> e, jwt |-> NoJWT, secrets |-> EmptyBlob] IN
    IF d.err # OK THEN fail(d.err)
    ELSE IF d.s.PublicKey # NoKey THEN fail(ErrHasPublicKey)
    ELSE LET s == setID([d.s EXCEPT !.PublicKey = pk], nextID) IN
         [err |-> OK, jwt |-> authJWT(s), secrets |-> encryptUserSecrets(s)]

\* SetUserPublicKey without the check for a key that is already set.
SetUserPublicKeyOverwrites(secrets, pin, pk) ==
    LET d == decryptUserSecretsIfPinOK(secrets, pin)
        fail(e) == [err |-> e, jwt |-> NoJWT, secrets |-> EmptyBlob] IN
    IF d.err # OK THEN fail(d.err)
    ELSE LET s == [d.s EXCEPT !.PublicKey = pk] IN
         [err |-> OK, jwt |-> authJWT(s), secrets |-> encryptUserSecrets(s)]

\* SetUserPublicKey: with the correct PIN and no key set, the key is written
\* and a token is minted; the ID is left as it is.
SetUserPublicKey(secrets, pin, pk) ==
    LET d == decryptUserSecretsIfPinOK(secrets, pin)
        fail(e) == [err |-> e, jwt |-> NoJWT, secrets |-> EmptyBlob] IN
    IF d.err # OK THEN fail(d.err)
    ELSE IF d.s.PublicKey # NoKey THEN fail(ErrHasPublicKey)
    ELSE LET s == [d.s EXCEPT !.PublicKey = pk] IN
         [err |-> OK, jwt |-> authJWT(s), secrets |-> encryptUserSecrets(s)]

\* NewUserSecrets that leaves the PIN field as it is created, without setPin.
NewUserSecretsNoPin(pin, pk, freshSecret, freshID) ==
    IF pin = TooLongPin THEN [err |-> ErrPinTooLong, secrets |-> EmptyBlob]
    ELSE [err |-> OK,
          secrets |-> encryptUserSecrets(
                         setID([NoSecrets EXCEPT !.KeyshareSecret = freshSecret,
                                                 !.PublicKey = pk], freshID))]

\* NewUserSecrets: a fresh keyshare secret and a fresh ID; the PIN, the secret
\* and the ID are written, the key is set as given, and the secrets are sealed.
NewUserSecrets(pin, pk, freshSecret, freshID) ==
    LET p == setPin(NoSecrets, pin) IN
    IF p.err # OK THEN [err |-> p.err, secrets |-> EmptyBlob]
    ELSE [err |-> OK,
          secrets |-> encryptUserSecrets(
                         setID([p.s EXCEPT !.KeyshareSecret = freshSecret,
                                           !.PublicKey = pk], freshID))]

\* ---------------------------------------------------------- proof sessions
\* A *big.Int challenge, by its sign and bit length.
ValidChallenge == [neg |-> FALSE, bitLen |-> Lh]
TooLongChallenge == [neg |-> FALSE, bitLen |-> Lh + 1]
NegativeChallenge == [neg |-> TRUE, bitLen |-> 1]
ZeroChallenge == [neg |-> FALSE, bitLen |-> 0]
ProofChallenges == {ValidChallenge, TooLongChallenge, NegativeChallenge}

NoCommit == 0
NoProofP == [secret |-> 0, commit |-> NoCommit, challenge |-> ValidChallenge, key |-> ""]

\* GenerateCommitments keeping one pending commit only.
GenerateCommitmentsSingleSession(cd, secrets, accessToken, keyIDs, freshID, t) ==
    LET fail(e) == [err |-> e, commitID |-> NoCommit, cd |-> cd] IN
    IF ~(keyIDs \subseteq trustedKeys) THEN fail(ErrKeyNotFound)
    ELSE LET a == verifyAccess(secrets, accessToken, t[1], t[2], t[3]) IN
         IF a.err # OK THEN fail(a.err)
         ELSE [err |-> OK, commitID |-> freshID, cd |-> [c \in {freshID} |-> freshID]]

\* GenerateCommitments passing over the keys it does not trust.
GenerateCommitmentsSkipsUntrusted(cd, secrets, accessToken, keyIDs, freshID, t) ==
    LET fail(e) == [err |-> e, commitID |-> NoCommit, cd |-> cd] IN
    IF keyIDs \cap trustedKeys = {} THEN fail(ErrKeyNotFound)
    ELSE LET a == verifyAccess(secrets, accessToken, t[1], t[2], t[3]) IN
         IF a.err # OK THEN fail(a.err)
         ELSE [err |-> OK, commitID |-> freshID,
               cd |-> [c \in (DOMAIN cd) \cup {freshID} |->
                          IF c = freshID THEN freshID ELSE cd[c]]]

\* GenerateCommitments: every key must be trusted, then the access token must
\* verify; the commit secret is stored under a fresh random commit id.
GenerateCommitments(cd, secrets, accessToken, keyIDs, freshID, t) ==
    LET fail(e) == [err |-> e, commitID |-> NoCommit, cd |-> cd] IN
    IF ~(keyIDs \subseteq trustedKeys) THEN fail(ErrKeyNotFound)
    ELSE LET a == verifyAccess(secrets, accessToken, t[1], t[2], t[3]) IN
         IF a.err # OK THEN fail(a.err)
         ELSE [err |-> OK, commitID |-> freshID,
               cd |-> [c \in (DOMAIN cd) \cup {freshID} |->
                          IF c = freshID THEN freshID ELSE cd[c]]]

\* The validation refusing a challenge of Lh bits already.
validateResponseRequestStrict(secrets, accessToken, chal, keyID, t) ==
    IF chal.bitLen >= Lh \/ chal.neg THEN [err |-> ErrInvalidChallenge, s |-> NoSecrets]
    ELSE IF keyID \notin trustedKeys THEN [err |-> ErrKeyNotFound, s |-> NoSecrets]
    ELSE verifyAccess(secrets, accessToken, t[1], t[2], t[3])

\* GenerateResponse up to the commit lookup: challenge bounds, trusted key,
\* access token.
validateResponseRequest(secrets, accessToken, chal, keyID, t) ==
    IF chal.bitLen > Lh \/ chal.neg THEN [err |-> ErrInvalidChallenge, s |-> NoSecrets]
    ELSE IF keyID \notin trustedKeys THEN [err |-> ErrKeyNotFound, s |-> NoSecrets]
    ELSE verifyAccess(secrets, accessToken, t[1], t[2], t[3])

\* The commit lookup reporting every commit id as missing.
fetchCommitNeverFound(cd, commitID) ==
    [ok |-> FALSE, commit |-> NoCommit,
     cd |-> [c \in (DOMAIN cd) \ {commitID} |-> cd[c]]]

\* The commit lookup without the delete.
fetchCommitNoDelete(cd, commitID) ==
    [ok |-> commitID \in DOMAIN cd,
     commit |-> IF commitID \in DOMAIN cd THEN cd[commitID] ELSE NoCommit,
     cd |-> cd]

\* The lookup and delete GenerateResponse does under commitmentMutex.
fetchCommit(cd, commitID) ==
    [ok |-> commitID \in DOMAIN cd,
     commit |-> IF commitID \in DOMAIN cd THEN cd[commitID] ELSE NoCommit,
     cd |-> [c \in (DOMAIN cd) \ {commitID} |-> cd[c]]]

\* gabi.KeyshareResponse over the user's keyshare secret and the commit.
KeyshareResponse(secret, commit, chal, key) ==
    [secret |-> secret, commit |-> commit, challenge |-> chal, key |-> key]

\* The user who opens the proof sessions where two users share the store.
SessionOwner == "legacyuser"

\* A response given only to the user who opened the session.
respondToOwnerOnly(f, s, chal, keyID) ==
    IF ~f.ok \/ s.KeyshareSecret # 1
    THEN [err |-> ErrUnknownCommit, proofP |-> NoProofP]
    ELSE [err |-> OK,
          proofP |-> KeyshareResponse(s.KeyshareSecret, f.commit, chal, keyID)]

\* GenerateResponse from the fetched commit on.
respond(f, s, chal, keyID) ==
    IF ~f.ok THEN [err |-> ErrUnknownCommit, proofP |-> NoProofP]
    ELSE [err |-> OK,
          proofP |-> KeyshareResponse(s.KeyshareSecret, f.commit, chal, keyID)]

\* GenerateResponse taking the commit out of the store before it validates
\* the request.
GenerateResponseFetchFirst(cd, secrets, accessToken, commitID, chal, keyID, t) ==
    LET f == fetchCommit(cd, commitID)
        v == validateResponseRequest(secrets, accessToken, chal, keyID, t) IN
    IF v.err # OK THEN [err |-> v.err, proofP |-> NoProofP, cd |-> f.cd]
    ELSE LET r == respond(f, v.s, chal, keyID) IN
         [err |-> r.err, proofP |-> r.proofP, cd |-> f.cd]

\* GenerateResponse as one uninterrupted call.
GenerateResponse(cd, secrets, accessToken, commitID, chal, keyID, t) ==
    LET v == validateResponseRequest(secrets, accessToken, chal, keyID, t) IN
    IF v.err # OK THEN [err |-> v.err, proofP |-> NoProofP, cd |-> cd]
    ELSE LET f == fetchCommit(cd, commitID)
             r == respond(f, v.s, chal, keyID) IN
         [err |-> r.err, proofP |-> r.proofP, cd |-> f.cd]

\* ------------------------------------------------------------ the state
\* createDB: "legacyuser" has no client key, "testusername" has one, and the
\* user "" holds empty secrets.  Both PINs are the test PIN.
InitDB ==
    [u \in Users |->
        CASE u = "legacyuser" ->
               encryptUserSecrets([Pin |-> TestPin, KeyshareSecret |-> 1, ID |-> 1,
                                   PublicKey |-> NoKey])
          [] u = "testusername" ->
               encryptUserSecrets([Pin |-> TestPin, KeyshareSecret |-> 2, ID |-> 2,
                                   PublicKey |-> ClientKey])
          [] OTHER -> EmptyBlob]

\* Whether `pin` is the PIN sealed in `secrets`.
PinMatches(secrets, pin) == secrets.sealed /\ verifyPin(secrets.s, pin) = OK

\* The signatures a client can present with `pin`: none, or one by a client key
\* over an issued challenge and that PIN.
Responses(pin) ==
    {EmptyResponse} \cup
    {[key |-> k, challenge |-> ch, pin |-> pin] :
        k \in ClientKeys, ch \in 1..(nextChallenge - 1)}

\* Tokens a client can present for user u: those the server signed, a string
\* that is no JWT, and forgeries over u's current token-id (signed by another
\* key, or HS256 keyed with the server's public key).
Forgeries(u) ==
    LET claims == [NoJWT EXCEPT !.sub = "auth_tok", !.iat = 0, !.exp = MaxTime + 1,
                                !.token_id = b64Encode(db[u].s.ID)] IN
    {MalformedJWT,
     [claims EXCEPT !.alg = "RS256", !.key = ForeignKey],
     [claims EXCEPT !.alg = "HS256", !.key = jwtPrivateKey]}

Presentable(u) == {m.jwt : m \in minted} \cup Forgeries(u)

\* The token is recorded when the server signs it.
Mint(jwt, by, u, secrets) ==
    minted \cup {[jwt |-> jwt, by |-> by, user |-> u, epoch |-> pinEpoch[u],
                  key |-> secrets.s.PublicKey]}

CanMint(jwt, by, u, secrets) == Cardinality(Mint(jwt, by, u, secrets)) <= MaxTokens

\* A handler that is serving no getResponse request.
IdleProc == [pc |-> "idle", s |-> NoSecrets, commitID |-> NoCommit,
             challenge |-> ValidChallenge, keyID |-> "", pend |-> FALSE,
             err |-> OK, proofP |-> NoProofP]

Init ==
    /\ db = InitDB
    /\ authChallenges = << >>
    /\ commitmentData = << >>
    /\ now = 0
    /\ nextID = 3
    /\ nextChallenge = 1
    /\ nextCommit = 1
    /\ minted = {}
    /\ pinEpoch = [u \in Users |-> 0]
    /\ fetched = [c \in Challenges |-> 0]
    /\ procs = [p \in Procs |-> IdleProc]
    /\ succ = [c \in CommitIDs |-> 0]
    /\ pinGuard = [tries |-> [u \in Users |-> MaxPinTries], refusals |-> 0]

\* ---------------------------------------------------------------- actions
Tick ==
    /\ now < MaxTime
    /\ now' = now + 1
    /\ UNCHANGED <<db, authChallenges, commitmentData, nextID, nextChallenge, nextCommit,
                   minted, pinEpoch, fetched, procs, succ, pinGuard>>

\* start_auth without a token: a challenge for the user's stored secrets, as
\* long as fewer than `bound` challenges have been handed out.
IssueChallenge(u, bound) ==
    /\ nextChallenge <= bound
    /\ LET r == GenerateChallenge(authChallenges, db[u], nextChallenge) IN
       /\ authChallenges' = r.chals
       /\ nextChallenge' = IF r.err = OK THEN nextChallenge + 1 ELSE nextChallenge
    /\ UNCHANGED <<db, commitmentData, now, nextID, nextCommit, minted, pinEpoch,
                   fetched, procs, succ, pinGuard>>

CallGenerateChallenge(u) == IssueChallenge(u, MaxChallenges)

\* verify/pin and verify/pin_challengeresponse on the user's stored secrets.
CallValidateAuth(u, pin, response) ==
    LET r == ValidateAuth(authChallenges, db[u], response, pin) IN
    /\ r.err = OK => CanMint(r.jwt, "ValidateAuth", u, db[u])
    /\ authChallenges' = r.chals
    /\ fetched' = IF r.challenge = Nil THEN fetched
                  ELSE [fetched EXCEPT ![r.challenge] = @ + 1]
    /\ minted' = IF r.err = OK THEN Mint(r.jwt, "ValidateAuth", u, db[u]) ELSE minted
    /\ UNCHANGED <<db, commitmentData, now, nextID, nextChallenge, nextCommit, pinEpoch,
                   procs, succ, pinGuard>>

\* change/pin: on success the caller stores the new blob for the user.
CallChangePin(u, jwtt) ==
    /\ nextID <= MaxIDs
    /\ LET r == ChangePin(db[u], jwtt, nextID) IN
       /\ db' = IF r.err = OK THEN [db EXCEPT ![u] = r.secrets] ELSE db
       /\ nextID' = IF r.err = OK THEN nextID + 1 ELSE nextID
       /\ pinEpoch' = IF r.err = OK THEN [pinEpoch EXCEPT ![u] = @ + 1] ELSE pinEpoch
    /\ UNCHANGED <<authChallenges, commitmentData, now, nextChallenge, nextCommit, minted,
                   fetched, procs, succ, pinGuard>>

\* register_publickey: on success the caller stores the new blob for the user.
CallSetUserPublicKey(u, pin, pk) ==
    LET r == SetUserPublicKey(db[u], pin, pk) IN
    /\ r.err = OK => CanMint(r.jwt, "SetUserPublicKey", u, r.secrets)
    /\ db' = IF r.err = OK THEN [db EXCEPT ![u] = r.secrets] ELSE db
    /\ minted' = IF r.err = OK THEN Mint(r.jwt, "SetUserPublicKey", u, r.secrets)
                  ELSE minted
    /\ UNCHANGED <<authChallenges, commitmentData, now, nextID, nextChallenge, nextCommit,
                   pinEpoch, fetched, procs, succ, pinGuard>>

\* The clock readings of one verifyAccess call, starting at time t0: the clock
\* may advance by a second between two readings.
ClockReadings(t0) ==
    {t \in (t0..t0 + 1) \X (t0..t0 + 1) \X (t0..t0 + 1) :
        t[1] = t0 /\ t[1] <= t[2] /\ t[2] <= t[3]}

\* start_auth with a token: is it a valid access token for the stored secrets?
\* The call changes nothing but takes the time its clock readings show.
CallValidateJWT(u, jwt, t) ==
    /\ t[3] <= MaxTime
    /\ ValidateJWT(db[u], jwt, t[1], t[2], t[3]) \in
          {OK, ErrInvalidJWT, ErrExpiredJWT, ErrDecrypt}
    /\ now' = t[3]
    /\ UNCHANGED <<db, authChallenges, commitmentData, nextID, nextChallenge, nextCommit,
                   minted, pinEpoch, fetched, procs, succ, pinGuard>>

Next ==
    \/ Tick
    \/ \E u \in Users : CallGenerateChallenge(u)
    \/ \E u \in Users, pin \in Pins : \E response \in Responses(pin) :
          CallValidateAuth(u, pin, response)
    \/ \E u \in Users, k \in ClientKeys, old \in Pins, new \in Pins :
          CallChangePin(u, changePinJWT(k, old, new))
    \/ \E u \in Users, pin \in Pins, pk \in ClientKeys : CallSetUserPublicKey(u, pin, pk)
    \/ \E u \in Users : \E jwt \in Presentable(u), t \in ClockReadings(now) :
          CallValidateJWT(u, jwt, t)

Spec == Init /\ [][Next]_vars

\* getCommitments on the user's stored secrets.
CallGenerateCommitments(u, jwt, keyIDs, t) ==
    /\ nextCommit <= MaxCommits
    /\ t[3] <= MaxTime
    /\ LET r == GenerateCommitments(commitmentData, db[u], jwt, keyIDs, nextCommit, t) IN
       /\ commitmentData' = r.cd
       /\ nextCommit' = IF r.err = OK THEN nextCommit + 1 ELSE nextCommit
    /\ now' = t[3]
    /\ UNCHANGED <<db, authChallenges, nextID, nextChallenge, minted, pinEpoch, fetched,
                   procs, succ, pinGuard>>

\* getResponse, handler p: the request is validated.  A request that fails
\* validation returns its error at once; one that passes goes on to the commit
\* lookup, and the handler notes whether the commit was pending at this point.
BeginGenerateResponse(p, u, jwt, commitID, chal, keyID, t) ==
    /\ procs[p].pc = "idle"
    /\ t[3] <= MaxTime
    /\ LET v == validateResponseRequest(db[u], jwt, chal, keyID, t) IN
       procs' = [procs EXCEPT ![p] =
                   IF v.err # OK
                   THEN IdleProc
                   ELSE [IdleProc EXCEPT !.pc = "fetch", !.commitID = commitID, !.s = v.s,
                                         !.challenge = chal, !.keyID = keyID,
                                         !.pend = commitID \in DOMAIN commitmentData]]
    /\ now' = t[3]
    /\ UNCHANGED <<db, authChallenges, commitmentData, nextID, nextChallenge, nextCommit,
                   minted, pinEpoch, fetched, succ, pinGuard>>

\* getResponse, handler p: the commit is looked up and deleted under the
\* mutex, and the response is computed from it.
FetchCommit(p) ==
    /\ procs[p].pc = "fetch"
    /\ LET f == fetchCommit(commitmentData, procs[p].commitID)
           r == respond(f, procs[p].s, procs[p].challenge, procs[p].keyID) IN
       /\ commitmentData' = f.cd
       /\ procs' = [procs EXCEPT ![p].pc = "done", ![p].err = r.err, ![p].proofP = r.proofP]
       /\ succ' = IF r.err = OK THEN [succ EXCEPT ![procs[p].commitID] = @ + 1] ELSE succ
    /\ UNCHANGED <<db, authChallenges, now, nextID, nextChallenge, nextCommit, minted,
                   pinEpoch, fetched, pinGuard>>

\* getResponse, handler p: the result is returned to the client.
ReturnResponse(p) ==
    /\ procs[p].pc = "done"
    /\ procs' = [procs EXCEPT ![p] = IdleProc]
    /\ UNCHANGED <<db, authChallenges, commitmentData, now, nextID, nextChallenge,
                   nextCommit, minted, pinEpoch, fetched, succ, pinGuard>>

\* The proof flow: PIN logins without a challenge-response, commitments and
\* responses.  Time passes between the calls (Tick), not within one.
NextProof ==
    \/ Tick
    \/ \E u \in Users, pin \in Pins : CallValidateAuth(u, pin, EmptyResponse)
    \/ \E u \in Users, keyIDs \in KeyIDLists :
          \E jwt \in Presentable(u) :
             CallGenerateCommitments(u, jwt, keyIDs, <<now, now, now>>)
    \/ \E p \in Procs, u \in Users, commitID \in CommitIDs, chal \in ProofChallenges,
          keyID \in KeyIDs :
          \E jwt \in Presentable(u) :
             BeginGenerateResponse(p, u, jwt, commitID, chal, keyID, <<now, now, now>>)
    \/ \E p \in Procs : FetchCommit(p)
    \/ \E p \in Procs : ReturnResponse(p)

SpecProof == Init /\ [][NextProof]_vars

\* ------------------------------------------------- two users, one store
\* Both users log in ("testusername" by challenge-response) and ask for
\* responses; the proof sessions are opened by SessionOwner.
ProofUsers == {"legacyuser", "testusername"}

NextCross ==
    \/ \E u \in ProofUsers : CallGenerateChallenge(u)
    \/ \E u \in ProofUsers, pin \in Pins : \E response \in Responses(pin) :
          CallValidateAuth(u, pin, response)
    \/ \E jwt \in Presentable(SessionOwner) :
          CallGenerateCommitments(SessionOwner, jwt, {"test.test-3"}, <<now, now, now>>)
    \/ \E p \in Procs, u \in ProofUsers, commitID \in CommitIDs :
          \E jwt \in Presentable(u) :
             BeginGenerateResponse(p, u, jwt, commitID, ValidChallenge, "test.test-3",
                                   <<now, now, now>>)
    \/ \E p \in Procs : FetchCommit(p)
    \/ \E p \in Procs : ReturnResponse(p)

SpecCross == Init /\ [][NextCross]_vars

\* ------------------------------------------------- challenges issued anew
\* start_auth may be called again before the challenge it gave is used.
CallGenerateChallengeAgain(u) == IssueChallenge(u, MaxChallenges + MaxReissues)

NextReissue ==
    \/ Tick
    \/ \E u \in ProofUsers : CallGenerateChallengeAgain(u)
    \/ \E u \in ProofUsers, pin \in Pins : \E response \in Responses(pin) :
          CallValidateAuth(u, pin, response)
    \/ \E pin \in Pins : CallSetUserPublicKey("legacyuser", pin, OtherKey)

SpecReissue == Init /\ [][NextReissue]_vars

\* PIN verification, PIN change and key registration with the clock held
\* still: none of them reads it but to stamp the token.
NextAuth ==
    \/ \E u \in Users : CallGenerateChallenge(u)
    \/ \E u \in Users, pin \in Pins : \E response \in Responses(pin) :
          CallValidateAuth(u, pin, response)
    \/ \E u \in Users, k \in ClientKeys, old \in Pins, new \in Pins :
          CallChangePin(u, changePinJWT(k, old, new))
    \/ \E u \in Users, pin \in Pins, pk \in ClientKeys : CallSetUserPublicKey(u, pin, pk)

SpecAuth == Init /\ [][NextAuth]_vars

\* ------------------------------------------------------------- enrollment
\* The DB before any user is enrolled: no username holds secrets.
InitEnroll ==
    /\ db = [u \in Users |-> EmptyBlob]
    /\ authChallenges = << >>
    /\ commitmentData = << >>
    /\ now = 0
    /\ nextID = 1
    /\ nextChallenge = 1
    /\ nextCommit = 1
    /\ minted = {}
    /\ pinEpoch = [u \in Users |-> 0]
    /\ fetched = [c \in Challenges |-> 0]
    /\ procs = [p \in Procs |-> IdleProc]
    /\ succ = [c \in CommitIDs |-> 0]
    /\ pinGuard = [tries |-> [u \in Users |-> MaxPinTries], refusals |-> 0]

\* register: secrets are created for a username that holds none and stored.
\* The keyshare secret and the ID are the next fresh draws.
CallNewUserSecrets(u, pin, pk) ==
    /\ db[u] = EmptyBlob
    /\ nextID <= MaxIDs
    /\ LET r == NewUserSecrets(pin, pk, nextID, nextID) IN
       /\ db' = IF r.err = OK THEN [db EXCEPT ![u] = r.secrets] ELSE db
       /\ nextID' = IF r.err = OK THEN nextID + 1 ELSE nextID
    /\ UNCHANGED <<authChallenges, commitmentData, now, nextChallenge, nextCommit, minted,
                   pinEpoch, fetched, procs, succ, pinGuard>>

\* Usernames that enroll.
EnrollUsers == {"legacyuser", "testusername"}

NextEnroll ==
    \/ \E u \in EnrollUsers, pin \in Pins, pk \in {NoKey, ClientKey} :
          CallNewUserSecrets(u, pin, pk)
    \/ \E u \in EnrollUsers, pin \in Pins : CallValidateAuth(u, pin, EmptyResponse)
    \/ \E u \in EnrollUsers, k \in ClientKeys, old \in Pins, new \in Pins :
          CallChangePin(u, changePinJWT(k, old, new))
    \/ \E u \in EnrollUsers, pin \in Pins, pk \in ClientKeys :
          CallSetUserPublicKey(u, pin, pk)

SpecEnroll == InitEnroll /\ [][NextEnroll]_vars

\* The start_auth envelope: "authorized" with no candidates for a valid
\* access token, otherwise "invalid" with the method the user must use.
startAuth(secrets, jwt, t) ==
    IF jwt # NoJWT /\ ValidateJWT(secrets, jwt, t[1], t[2], t[3]) = OK
    THEN [status |-> "authorized", candidates |-> {}]
    ELSE [status |-> "invalid",
          candidates |-> IF secrets.s.PublicKey # NoKey THEN {"ecdsa"} ELSE {"pin"}]

\* ------------------------------------------------------- the PIN guard
\* DB.reservePinTry on a user with n tries left: a blocked user (no tries
\* left) gets ok = FALSE and the time to wait; otherwise a try is taken and the
\* tries that remain are reported, with the time to wait when none remain.
reservePinTry(n) ==
    IF n = 0 THEN [ok |-> FALSE, tries |-> 0, wait |-> WaitSeconds, left |-> 0]
    ELSE [ok |-> TRUE, tries |-> n - 1,
          wait |-> IF n = 1 THEN WaitSeconds ELSE 0, left |-> n - 1]

\* What reservePinTry may return for a blocked user.
BlockedReservations ==
    [ok : {FALSE}, tries : 0..MaxPinTries, wait : {0, WaitSeconds}, left : {0}]

\* The outcome of a PIN operation: the PinStatus envelope (status; message,
\* the remaining tries or the seconds to wait; jwt, the token of a success),
\* the challenge store and the secrets it leaves, whether the core was asked
\* to check the PIN, whether the retry counter is to be reset, and the
\* challenge the core consumed.
PinOutcome(status, message, jwt, chals, secrets, checked, reset, consumed) ==
    [status |-> status, message |-> message, jwt |-> jwt, chals |-> chals,
     secrets |-> secrets, checked |-> checked, reset |-> reset, consumed |-> consumed]

\* What reservePinTry may return for a user who is not blocked: the tries that
\* remain after this one, and what the retry counter falls to if it fails.
OpenReservations ==
    [ok : {TRUE}, tries : 0..MaxPinTries, wait : {0, WaitSeconds}, left : 0..MaxPinTries]

\* An envelope that reports every wrong PIN as a block.
pinStatusAlwaysError(r, err) ==
    IF err = OK THEN "success"
    ELSE IF err # ErrInvalidPin THEN "servererror"
    ELSE "error"

\* An envelope that reports every wrong PIN as a failed try.
pinStatusAlwaysFailure(r, err) ==
    IF err = OK THEN "success"
    ELSE IF err # ErrInvalidPin THEN "servererror"
    ELSE "failure"

\* The envelope for the core's verdict err under reservation r: a wrong PIN
\* is a "failure" with the tries that remain, or an "error" with the time to
\* wait when none remain; any other error is no PinStatus.
pinStatus(r, err) ==
    IF err = OK THEN "success"
    ELSE IF err # ErrInvalidPin THEN "servererror"
    ELSE IF r.tries = 0 THEN "error" ELSE "failure"

pinMessage(r, err) ==
    IF err # ErrInvalidPin THEN 0
    ELSE IF r.tries = 0 THEN r.wait ELSE r.tries

\* A PIN operation that skips the reservation's verdict and asks the core.
handlePinOperationUnguarded(r, chals, secrets, core) ==
    PinOutcome(pinStatus(r, core.err), pinMessage(r, core.err), core.jwt, core.chals,
               IF core.err = OK THEN core.secrets ELSE secrets,
               TRUE, core.err = OK, core.challenge)

\* A PIN operation under reservation r, the core's answer being `core`: a
\* blocked user is refused before the core is asked.
handlePinOperation(r, chals, secrets, core) ==
    IF ~r.ok
    THEN PinOutcome("error", r.wait, NoJWT, chals, secrets, FALSE, FALSE, Nil)
    ELSE PinOutcome(pinStatus(r, core.err), pinMessage(r, core.err), core.jwt, core.chals,
                    IF core.err = OK THEN core.secrets ELSE secrets,
                    TRUE, core.err = OK, core.challenge)

\* verify/pin and verify/pin_challengeresponse.
handleVerifyPin(r, chals, secrets, response, pin) ==
    LET v == ValidateAuth(chals, secrets, response, pin) IN
    handlePinOperation(r, chals, secrets,
        [err |-> v.err, jwt |-> v.jwt, chals |-> v.chals, secrets |-> secrets,
         challenge |-> v.challenge])

\* The legacy change of PIN, from the unsigned message {id, oldpin, newpin}:
\* the old PIN is checked, secrets that hold a client key are refused, and
\* the new PIN and a fresh ID are written.
ChangePinLegacy(secrets, oldpin, newpin, freshID) ==
    LET d == decryptUserSecretsIfPinOK(secrets, oldpin)
        fail(e) == [err |-> e, secrets |-> EmptyBlob] IN
    IF d.err # OK THEN fail(d.err)
    ELSE IF d.s.PublicKey # NoKey THEN fail(ErrChallengeResponseRequired)
    ELSE LET p == setPin(d.s, newpin) IN
         IF p.err # OK THEN fail(p.err)
         ELSE [err |-> OK, secrets |-> encryptUserSecrets(setID(p.s, freshID))]

\* The unsigned change-PIN message.
legacyChangePin(oldpin, newpin) == changePinJWT(NoKey, oldpin, newpin)

\* What a client can send to change/pin: a JWT signed by a client key, or the
\* unsigned legacy message.
ChangePinMessages ==
    {changePinJWT(k, old, new) : k \in ClientKeys \cup {NoKey}, old \in Pins, new \in Pins}

\* change/pin: a signed JWT goes to ChangePin, the legacy message to the
\* legacy change of PIN.
handleChangePin(r, chals, secrets, jwtt, freshID) ==
    LET c == IF jwtt.key = NoKey
             THEN ChangePinLegacy(secrets, jwtt.OldPin, jwtt.NewPin, freshID)
             ELSE ChangePin(secrets, jwtt, freshID) IN
    handlePinOperation(r, chals, secrets,
        [err |-> c.err, jwt |-> NoJWT, chals |-> chals, secrets |-> c.secrets,
         challenge |-> Nil])

\* register_publickey.
handleRegisterPublicKey(r, chals, secrets, pin, pk) ==
    LET k == SetUserPublicKey(secrets, pin, pk) IN
    handlePinOperation(r, chals, secrets,
        [err |-> k.err, jwt |-> k.jwt, chals |-> chals, secrets |-> k.secrets,
         challenge |-> Nil])

\* The retry state a PIN operation with outcome o under reservation r leaves.
guardAfter(u, r, o) ==
    [tries |-> [pinGuard.tries EXCEPT ![u] = IF o.reset THEN MaxPinTries ELSE r.left],
     refusals |-> IF r.ok THEN pinGuard.refusals ELSE pinGuard.refusals + 1]

\* The server applies the outcome of a PIN operation on user u.
ApplyPinOutcome(u, r, o, by) ==
    /\ ~r.ok => pinGuard.refusals < MaxRefusals
    /\ o.jwt # NoJWT => CanMint(o.jwt, by, u, o.secrets)
    /\ db' = [db EXCEPT ![u] = o.secrets]
    /\ authChallenges' = o.chals
    /\ fetched' = IF o.consumed = Nil THEN fetched
                  ELSE [fetched EXCEPT ![o.consumed] = @ + 1]
    /\ minted' = IF o.jwt # NoJWT THEN Mint(o.jwt, by, u, o.secrets) ELSE minted
    /\ pinGuard' = guardAfter(u, r, o)

HandleVerifyPin(u, pin, response) ==
    LET r == reservePinTry(pinGuard.tries[u]) IN
    /\ ApplyPinOutcome(u, r, handleVerifyPin(r, authChallenges, db[u], response, pin),
                       "ValidateAuth")
    /\ UNCHANGED <<commitmentData, now, nextID, nextChallenge, nextCommit, pinEpoch,
                   procs, succ>>

HandleChangePin(u, jwtt) ==
    LET r == reservePinTry(pinGuard.tries[u])
        o == handleChangePin(r, authChallenges, db[u], jwtt, nextID) IN
    /\ nextID <= MaxIDs
    /\ ApplyPinOutcome(u, r, o, "ChangePin")
    /\ nextID' = IF o.status = "success" THEN nextID + 1 ELSE nextID
    /\ pinEpoch' = IF o.status = "success" THEN [pinEpoch EXCEPT ![u] = @ + 1] ELSE pinEpoch
    /\ UNCHANGED <<commitmentData, now, nextChallenge, nextCommit, procs, succ>>

HandleRegisterPublicKey(u, pin, pk) ==
    LET r == reservePinTry(pinGuard.tries[u]) IN
    /\ ApplyPinOutcome(u, r, handleRegisterPublicKey(r, authChallenges, db[u], pin, pk),
                       "SetUserPublicKey")
    /\ UNCHANGED <<commitmentData, now, nextID, nextChallenge, nextCommit, pinEpoch,
                   procs, succ>>

ServerUsers == {"legacyuser", "testusername"}

\* The PIN operations of the server, each under its reservation.  Logins
\* carry no challenge-response here: the challenge flow is in Spec.
NextServer ==
    \/ \E u \in ServerUsers, pin \in Pins : HandleVerifyPin(u, pin, EmptyResponse)
    \/ \E u \in ServerUsers, jwtt \in ChangePinMessages : HandleChangePin(u, jwtt)
    \/ \E u \in ServerUsers, pin \in Pins, pk \in ClientKeys :
          HandleRegisterPublicKey(u, pin, pk)

SpecServer == Init /\ [][NextServer]_vars

\* ----------------------------------------------------------------- claims
HasKey(u) == db[u].sealed /\ db[u].s.PublicKey # NoKey

\* The PIN sealed in u's stored secrets.
StoredPin(u) == db[u].s.Pin

\* A correctly signed response of u's registered key over challenge ch and pin.
SignedResponse(u, ch, pin) == [key |-> db[u].s.PublicKey, challenge |-> ch, pin |-> pin]

\* C1: after a successful ChangePin, every access token minted for the user
\* before the change is rejected by verifyAccess against the user's new blob.
C1_OldTokensRejectedAfterChangePin ==
    \A m \in minted : \A t \in ClockReadings(now) :
        m.epoch < pinEpoch[m.user] =>
            verifyAccess(db[m.user], m.jwt, t[1], t[2], t[3]).err # OK

\* A PIN change happened after an access token was minted; the token has not
\* expired and is refused as invalid.
C1_Witness ==
    \E m \in minted :
        /\ m.epoch < pinEpoch[m.user]
        /\ now < m.jwt.exp
        /\ verifyAccess(db[m.user], m.jwt, now, now, now).err = ErrInvalidJWT

\* C2: a commit id is answered with a ProofP at most once and is gone from
\* commitmentData once answered; and of two GenerateResponse calls made one
\* after the other with a valid token, challenge and key for a pending commit
\* id, the first returns the ProofP over the stored commit and the second
\* fails with ErrUnknownCommit.
C2_CommitConsumedOnce ==
    /\ \A c \in CommitIDs : succ[c] <= 1 /\ (succ[c] = 1 => c \notin DOMAIN commitmentData)
    /\ \A m \in minted : \A c \in DOMAIN commitmentData :
          verifyAccess(db[m.user], m.jwt, now, now, now).err = OK =>
             LET t == <<now, now, now>>
                 r1 == GenerateResponse(commitmentData, db[m.user], m.jwt, c,
                                        ValidChallenge, "test.test-3", t)
                 r2 == GenerateResponse(r1.cd, db[m.user], m.jwt, c,
                                        ValidChallenge, "test.test-3", t) IN
             /\ r1.err = OK
             /\ r1.proofP.commit = commitmentData[c]
             /\ r2.err = ErrUnknownCommit
             /\ r2.cd = r1.cd

\* A call that started after commit 1 had been answered has failed with
\* ErrUnknownCommit, while another commit is still pending.
C2_Witness ==
    /\ succ[1] = 1
    /\ commitmentData # << >>
    /\ \E p \in Procs :
          /\ procs[p].pc = "done"
          /\ procs[p].commitID = 1
          /\ ~procs[p].pend
          /\ procs[p].err = ErrUnknownCommit
    /\ \E m \in minted : verifyAccess(db[m.user], m.jwt, now, now, now).err = OK

\* C3: of two GenerateResponse calls in flight with the same commit id, both
\* validated while the commit was pending, the one that reaches the lookup
\* first gets the ProofP and the other gets ErrUnknownCommit: never both
\* succeed and never both fail.
C3_ConcurrentResponsesOneWins ==
    \A p, q \in Procs :
       (/\ p # q
        /\ procs[p].pc \in {"fetch", "done"}
        /\ procs[q].pc \in {"fetch", "done"}
        /\ procs[p].commitID = procs[q].commitID
        /\ procs[p].pend /\ procs[q].pend) =>
          LET c == procs[p].commitID IN
          /\ (procs[p].pc = "fetch" /\ procs[q].pc = "fetch") =>
                /\ c \in DOMAIN commitmentData
                /\ fetchCommit(commitmentData, c).ok
                /\ ~fetchCommit(fetchCommit(commitmentData, c).cd, c).ok
          /\ (procs[p].pc = "done" /\ procs[q].pc = "fetch") =>
                /\ procs[p].err = OK
                /\ ~fetchCommit(commitmentData, c).ok
          /\ (procs[p].pc = "done" /\ procs[q].pc = "done") =>
                \/ procs[p].err = OK /\ procs[q].err = ErrUnknownCommit
                \/ procs[p].err = ErrUnknownCommit /\ procs[q].err = OK

\* Both handlers have finished a call for commit 1 that was pending when each
\* was validated: h2 holds the ProofP, h1 ErrUnknownCommit.
C3_Witness ==
    /\ procs["h1"].pc = "done" /\ procs["h2"].pc = "done"
    /\ procs["h1"].commitID = 1 /\ procs["h2"].commitID = 1
    /\ procs["h1"].pend /\ procs["h2"].pend
    /\ procs["h2"].err = OK /\ procs["h2"].proofP.commit = 1
    /\ procs["h1"].err = ErrUnknownCommit

\* C4: a challenge is handed out by c.challenge at most once, and for a user
\* with a client key a response over a challenge that has been consumed never
\* passes ValidateAuth again.
C4_ChallengeOneShot ==
    /\ \A ch \in Challenges : fetched[ch] <= 1
    /\ \A u \in Users, pin \in Pins : \A response \in Responses(pin) :
          (HasKey(u) /\ response.challenge # Nil /\ fetched[response.challenge] >= 1)
             => ValidateAuth(authChallenges, db[u], response, pin).err # OK

\* A ValidateAuth of "testusername" consumed challenge 1 and returned a token;
\* the same correctly signed response is now refused.
C4_Witness ==
    /\ fetched[1] = 1
    /\ \E m \in minted : m.user = "testusername" /\ m.by = "ValidateAuth"
    /\ ValidateAuth(authChallenges, db["testusername"],
                    SignedResponse("testusername", 1, StoredPin("testusername")),
                    StoredPin("testusername")).err = ErrChallengeResponseRequired

\* C5: for a user whose secrets hold a client key, ValidateAuth with an empty
\* response returns no access token, whatever the PIN and whether or not a
\* challenge is outstanding.
C5_NoTokenWithoutResponse ==
    \A u \in Users, pin \in Pins :
        HasKey(u) =>
            LET r == ValidateAuth(authChallenges, db[u], EmptyResponse, pin) IN
            r.err # OK /\ r.jwt = NoJWT

\* The challenge issued to "testusername" was consumed by a ValidateAuth that
\* returned no token; the correct PIN with an empty response is refused with
\* ErrChallengeResponseRequired.
C5_Witness ==
    /\ HasKey("testusername")
    /\ fetched[1] = 1
    /\ minted = {}
    /\ LET r == ValidateAuth(authChallenges, db["testusername"], EmptyResponse,
                             StoredPin("testusername")) IN
       r.err = ErrChallengeResponseRequired /\ r.jwt = NoJWT

\* The outcome o refuses a blocked user u under reservation r: status "error"
\* with the time to wait, the core not asked, nothing minted or changed.
Refused(o, r, u) ==
    /\ o.status = "error" /\ o.message = r.wait
    /\ ~o.checked /\ ~o.reset
    /\ o.jwt = NoJWT /\ o.consumed = Nil
    /\ o.secrets = db[u] /\ o.chals = authChallenges

\* C6: when reservePinTry returns ok = FALSE, verify PIN, change PIN and
\* register public key each answer status "error" with the time to wait,
\* without asking the core to check the PIN, whatever the PIN, and leave the
\* secrets, the tokens and the challenges as they were; reservePinTry returns
\* ok = FALSE for a user with no tries left, and the retry counters stay as
\* they were.
C6_BlockedUserNotChecked ==
    \A u \in ServerUsers :
       /\ \A r \in BlockedReservations : \A pin \in Pins :
             /\ \A response \in Responses(pin) :
                   Refused(handleVerifyPin(r, authChallenges, db[u], response, pin), r, u)
             /\ \A k \in ClientKeys, new \in Pins :
                   Refused(handleChangePin(r, authChallenges, db[u],
                                           changePinJWT(k, pin, new), nextID), r, u)
             /\ \A pk \in ClientKeys :
                   Refused(handleRegisterPublicKey(r, authChallenges, db[u], pin, pk), r, u)
       /\ pinGuard.tries[u] = 0 =>
             LET r == reservePinTry(pinGuard.tries[u]) IN
             /\ r \in BlockedReservations
             /\ guardAfter(u, r, [reset |-> FALSE]).tries = pinGuard.tries

\* "legacyuser" is blocked and has been refused once; its correct PIN, which
\* alone would mint a token, is answered with "error" and the time to wait.
C6_Witness ==
    /\ pinGuard.tries["legacyuser"] = 0
    /\ pinGuard.refusals = 1
    /\ ~HasKey("legacyuser")
    /\ ValidateAuth(authChallenges, db["legacyuser"], EmptyResponse,
                    StoredPin("legacyuser")).err = OK
    /\ LET o == handleVerifyPin(reservePinTry(0), authChallenges, db["legacyuser"],
                                EmptyResponse, StoredPin("legacyuser")) IN
       o.status = "error" /\ o.message = WaitSeconds /\ o.jwt = NoJWT

\* C7 as claimed: a successful SetUserPublicKey rotates the token-id, so the
\* tokens minted before the registration are rejected against the new blob.
C7_RegistrationRotatesTokenID ==
    \A m \in minted :
        (m.by = "ValidateAuth" /\ m.key = NoKey /\ HasKey(m.user))
           => verifyAccess(db[m.user], m.jwt, now, now, now).err # OK

\* C7 amended: a successful SetUserPublicKey keeps the token-id: the new blob
\* and the returned token carry the ID of the old blob, and every token that
\* verifyAccess accepts against the old blob it accepts against the new one.
C7_RegistrationKeepsTokenID ==
    \A u \in Users, pin \in Pins, pk \in ClientKeys :
        LET r == SetUserPublicKey(db[u], pin, pk) IN
        r.err = OK =>
            /\ r.secrets.s.ID = db[u].s.ID
            /\ r.jwt.token_id = b64Encode(db[u].s.ID)
            /\ \A m \in minted : \A t \in ClockReadings(now) :
                  verifyAccess(db[u], m.jwt, t[1], t[2], t[3]).err = OK
                     => verifyAccess(r.secrets, m.jwt, t[1], t[2], t[3]).err = OK

\* A user without a key got a token from ValidateAuth, then registered a key:
\* the earlier token is still accepted against the new blob.
C7_Witness ==
    \E m1 \in minted, m2 \in minted :
        /\ m1.user = m2.user
        /\ m1.by = "ValidateAuth" /\ m1.key = NoKey
        /\ m2.by = "SetUserPublicKey"
        /\ HasKey(m1.user)
        /\ verifyAccess(db[m1.user], m1.jwt, now, now, now).err = OK

\* C8: SetUserPublicKey succeeds only with the correct PIN on secrets without a
\* key; once the stored secrets hold a key every SetUserPublicKey fails and
\* returns no blob, and a key that was registered is the stored key ever after.
C8_RegistrationOneShot ==
    /\ \A u \in Users, pin \in Pins, pk \in ClientKeys :
          LET r == SetUserPublicKey(db[u], pin, pk) IN
          /\ r.err = OK => (PinMatches(db[u], pin) /\ ~HasKey(u))
          /\ HasKey(u) => (r.err # OK /\ r.secrets = EmptyBlob /\ r.jwt = NoJWT)
    /\ \A m \in minted :
          m.by = "SetUserPublicKey" =>
             (m.key # NoKey /\ db[m.user].sealed /\ db[m.user].s.PublicKey = m.key)
    /\ db["testusername"].s.PublicKey = InitDB["testusername"].s.PublicKey

\* "legacyuser" registered a key; registering another key with the correct PIN
\* is refused.
C8_Witness ==
    /\ \E m \in minted : m.user = "legacyuser" /\ m.by = "SetUserPublicKey"
    /\ HasKey("legacyuser")
    /\ \E pk \in ClientKeys :
          /\ pk # db["legacyuser"].s.PublicKey
          /\ SetUserPublicKey(db["legacyuser"], StoredPin("legacyuser"), pk).err
                = ErrHasPublicKey

\* A token that carries the server's RS256 signature, and one past its expiry.
CorrectlySigned(jwt) == jwt.alg = "RS256" /\ jwt.key = jwtPrivateKey
Expired(jwt, t) == jwt.exp # NoClaim /\ ~(t < jwt.exp)

\* C9 as claimed: verifyAccess returns ErrExpiredJWT exactly when the token is
\* correctly signed and its expiry has passed, and ErrInvalidJWT for every
\* other violation of the token.
C9_ExpiredExactlyWhenExpired ==
    \A u \in Users : \A jwt \in Presentable(u) :
        LET e == verifyAccess(db[u], jwt, now, now, now).err IN
        /\ (e = ErrExpiredJWT) <=> (CorrectlySigned(jwt) /\ Expired(jwt, now))
        /\ (e \notin {OK, ErrExpiredJWT, ErrDecrypt}) => e = ErrInvalidJWT

\* C10: a token returned by ValidateAuth or SetUserPublicKey is accepted by
\* verifyAccess against its user's stored blob while it is unexpired and no
\* ChangePin has replaced the blob, and start_auth then reports "authorized"
\* with no candidates.
C10_TokenValidUntilExpiryOrPinChange ==
    \A m \in minted : \A t \in ClockReadings(now) :
        (m.epoch = pinEpoch[m.user] /\ t[3] < m.jwt.exp) =>
            /\ verifyAccess(db[m.user], m.jwt, t[1], t[2], t[3]).err = OK
            /\ ValidateJWT(db[m.user], m.jwt, t[1], t[2], t[3]) = OK
            /\ startAuth(db[m.user], m.jwt, t) = [status |-> "authorized", candidates |-> {}]

\* A token minted before the user registered a key is accepted a second after
\* it was minted, against the blob the registration stored.
C10_Witness ==
    \E m \in minted :
        /\ m.by = "ValidateAuth" /\ m.key = NoKey /\ HasKey(m.user)
        /\ m.jwt.iat < now /\ now < m.jwt.exp
        /\ startAuth(db[m.user], m.jwt, <<now, now, now>>).status = "authorized"

\* C11: secrets NewUserSecrets creates without a key for a PIN within the
\* length limit verify with that PIN (ValidateAuth returns a token bound to the
\* new ID) and fail with ErrInvalidPin for every other PIN within the limit; a
\* longer PIN never verifies, and no secrets are created for one.  The same
\* holds of the stored secrets of every enrolled user without a key.
C11_NewSecretsVerifyWithTheirPin ==
    /\ \A p \in Pins :
          LET n == NewUserSecrets(p, NoKey, nextID, nextID)
              va(q) == ValidateAuth(authChallenges, n.secrets, EmptyResponse, q) IN
          IF p = TooLongPin
          THEN n.err = ErrPinTooLong /\ \A q \in Pins : va(q).err # OK
          ELSE /\ n.err = OK
               /\ va(p).err = OK
               /\ va(p).jwt # NoJWT
               /\ va(p).jwt.token_id = b64Encode(nextID)
               /\ \A q \in Pins \ {p} :
                     /\ va(q).jwt = NoJWT
                     /\ IF q = TooLongPin THEN va(q).err # OK
                                          ELSE va(q).err = ErrInvalidPin
    /\ \A u \in EnrollUsers :
          (db[u].sealed /\ ~HasKey(u)) =>
             \A q \in Pins \ {TooLongPin} :
                ValidateAuth(authChallenges, db[u], EmptyResponse, q).err
                   = IF q = StoredPin(u) THEN OK ELSE ErrInvalidPin

\* A user enrolled without a key and with a PIN other than the test PIN has
\* been given a token by ValidateAuth; the test PIN is refused with
\* ErrInvalidPin.
C11_Witness ==
    \E m \in minted :
       /\ m.by = "ValidateAuth" /\ m.key = NoKey
       /\ db[m.user].sealed /\ ~HasKey(m.user)
       /\ StoredPin(m.user) = OtherPin
       /\ m.jwt.token_id = b64Encode(db[m.user].s.ID)
       /\ ValidateAuth(authChallenges, db[m.user], EmptyResponse, TestPin).err
             = ErrInvalidPin

\* The core's verdict on change/pin with message jwtt.
changePinVerdict(secrets, jwtt) ==
    IF jwtt.key = NoKey
    THEN ChangePinLegacy(secrets, jwtt.OldPin, jwtt.NewPin, nextID).err
    ELSE ChangePin(secrets, jwtt, nextID).err

\* The outcome o of a PIN operation on u under r is a failed try: status
\* "failure" with the remaining tries, no token, nothing stored or reset.
FailedTry(u, r, o) ==
    /\ o.status = "failure" /\ o.message = r.tries
    /\ o.jwt = NoJWT /\ o.secrets = db[u] /\ ~o.reset
    /\ guardAfter(u, r, o).tries[u] = r.left

\* The outcome o is a success that resets u's retry counter.
SuccessResets(u, r, o) ==
    /\ o.status = "success" /\ o.reset
    /\ guardAfter(u, r, o).tries[u] = MaxPinTries

\* C12: when reservePinTry grants the try and tries remain, a wrong PIN in
\* verify PIN or in change PIN (signed or legacy) answers PinStatus "failure"
\* with the remaining tries and no token, and a PIN check the core accepts
\* answers "success" (with the token, for verify PIN) and resets the retry
\* counter.
C12_WrongPinFailureCorrectPinSuccess ==
    \A u \in ServerUsers : \A r \in OpenReservations : r.tries > 0 =>
        /\ \A pin \in Pins : \A response \in Responses(pin) :
              LET v == ValidateAuth(authChallenges, db[u], response, pin)
                  o == handleVerifyPin(r, authChallenges, db[u], response, pin) IN
              /\ (db[u].sealed /\ pin \notin {StoredPin(u), TooLongPin}) =>
                    v.err = ErrInvalidPin
              /\ v.err = ErrInvalidPin => FailedTry(u, r, o)
              /\ v.err = OK => SuccessResets(u, r, o) /\ o.jwt = v.jwt /\ o.jwt # NoJWT
              /\ (pin = StoredPin(u) /\ ~HasKey(u) /\ response = EmptyResponse) => v.err = OK
        /\ \A jwtt \in ChangePinMessages :
              LET e == changePinVerdict(db[u], jwtt)
                  o == handleChangePin(r, authChallenges, db[u], jwtt, nextID) IN
              /\ (jwtt.OldPin \notin {StoredPin(u), TooLongPin} /\ HasKey(u) = (jwtt.key # NoKey)
                    /\ jwtt.key \in {NoKey, db[u].s.PublicKey}) => e = ErrInvalidPin
              /\ e = ErrInvalidPin => FailedTry(u, r, o)
              /\ e = OK => SuccessResets(u, r, o) /\ PinMatches(o.secrets, jwtt.NewPin)

\* A try of legacyuser has failed and a later one has succeeded.
C12_Witness ==
    /\ pinGuard.tries["testusername"] = MaxPinTries - 1
    /\ pinGuard.tries["legacyuser"] = MaxPinTries
    /\ \E m \in minted : m.user = "legacyuser" /\ m.by = "ValidateAuth"
    /\ pinEpoch["legacyuser"] > 0

\* The outcome o of a PIN operation on u under r blocks the user: status
\* "error" with the seconds to wait, no token, nothing stored, and the next
\* reservation of u is refused.
BlocksUser(u, r, o) ==
    /\ o.status = "error" /\ o.message = r.wait
    /\ o.jwt = NoJWT /\ o.secrets = db[u] /\ ~o.reset
    /\ guardAfter(u, r, o).tries[u] = 0
    /\ ~reservePinTry(guardAfter(u, r, o).tries[u]).ok

\* The reservations that grant the last try.
LastTryReservations == {r \in OpenReservations : r.tries = 0 /\ r.left = 0}

\* C13: when reservePinTry grants the try and no tries remain, a wrong PIN
\* in verify PIN or in change PIN blocks the user: the answer is PinStatus
\* "error" with the seconds to wait, never "failure".
C13_LastWrongPinBlocks ==
    \A u \in ServerUsers :
       \A r \in LastTryReservations \cup
                 {x \in {reservePinTry(pinGuard.tries[u])} : x.ok /\ x.tries = 0} :
        /\ \A pin \in Pins : \A response \in Responses(pin) :
              LET v == ValidateAuth(authChallenges, db[u], response, pin)
                  o == handleVerifyPin(r, authChallenges, db[u], response, pin) IN
              /\ (db[u].sealed /\ pin \notin {StoredPin(u), TooLongPin}) =>
                    v.err = ErrInvalidPin
              /\ v.err = ErrInvalidPin => BlocksUser(u, r, o)
              /\ o.status # "failure"
        /\ \A jwtt \in ChangePinMessages :
              LET e == changePinVerdict(db[u], jwtt)
                  o == handleChangePin(r, authChallenges, db[u], jwtt, nextID) IN
              /\ e = ErrInvalidPin => BlocksUser(u, r, o)
              /\ o.status # "failure"

\* testusername has spent the last try on a wrong PIN and is blocked, without
\* a refusal having happened yet.
C13_Witness ==
    /\ pinGuard.tries["testusername"] = 0
    /\ pinGuard.refusals = 0
    /\ PinMatches(db["testusername"], TestPin)
    /\ handleVerifyPin(reservePinTry(1), authChallenges, db["testusername"],
                       EmptyResponse, OtherPin).status = "error"

\* C14: several commits are pending at once.  A successful
\* GenerateCommitments returns a commit id that is not pending (the 64-bit
\* random draw taken as fresh) and leaves every pending entry as it was;
\* every commit id handed out is pending until a GenerateResponse answered it,
\* and each pending id is answered from its own commit, which removes no
\* other entry.
C14_SessionsPendingTogether ==
    /\ nextCommit \notin DOMAIN commitmentData
    /\ \A c \in 1..(nextCommit - 1) :
          /\ (c \in DOMAIN commitmentData) # (succ[c] = 1)
          /\ c \in DOMAIN commitmentData => commitmentData[c] = c
    /\ \A m \in minted :
          verifyAccess(db[m.user], m.jwt, now, now, now).err = OK =>
             LET t == <<now, now, now>>
                 g == GenerateCommitments(commitmentData, db[m.user], m.jwt,
                                          {"test.test-3"}, nextCommit, t) IN
             /\ g.err = OK
             /\ g.commitID \notin DOMAIN commitmentData
             /\ DOMAIN g.cd = DOMAIN commitmentData \cup {g.commitID}
             /\ \A c \in DOMAIN commitmentData : g.cd[c] = commitmentData[c]
             /\ \A c \in DOMAIN g.cd :
                   LET r == GenerateResponse(g.cd, db[m.user], m.jwt, c,
                                             ValidChallenge, "test.test-3", t) IN
                   /\ r.err = OK
                   /\ r.proofP.commit = g.cd[c]
                   /\ DOMAIN r.cd = DOMAIN g.cd \ {c}
                   /\ \A d \in DOMAIN r.cd : r.cd[d] = g.cd[d]

\* The second commit was handed out while the first was pending, and has
\* been answered while the first is pending still.
C14_Witness ==
    /\ succ[2] = 1
    /\ 1 \in DOMAIN commitmentData
    /\ succ[1] = 0
    /\ \E m \in minted : verifyAccess(db[m.user], m.jwt, now, now, now).err = OK

\* C15 as stated: for a user with a client key, the correct PIN without a
\* challenge-response fails with ErrChallengeResponseRequired in every state
\* of the challenge store.
C15_AlwaysChallengeResponseRequired ==
    \A u \in Users :
        HasKey(u) =>
            ValidateAuth(authChallenges, db[u], EmptyResponse, StoredPin(u)).err
                = ErrChallengeResponseRequired

\* C15, amended: for a user with a client key, the correct PIN without a
\* challenge-response always fails and yields no token.  The error is
\* ErrChallengeResponseRequired exactly when no challenge is stored under
\* the user's ID; when one is outstanding the call consumes it and fails with
\* the error of the signature verification instead, and only a repeated call
\* is answered ErrChallengeResponseRequired.
C15_RequiredOnlyWithoutChallenge ==
    \A u \in Users :
        HasKey(u) =>
            LET id == db[u].s.ID
                r == ValidateAuth(authChallenges, db[u], EmptyResponse, StoredPin(u)) IN
            /\ r.err # OK /\ r.jwt = NoJWT
            /\ id \notin DOMAIN authChallenges =>
                  r.err = ErrChallengeResponseRequired /\ r.chals = authChallenges
            /\ id \in DOMAIN authChallenges =>
                  /\ r.err = signedVerify(db[u].s.PublicKey, authChallenges[id],
                                          StoredPin(u), EmptyResponse)
                  /\ r.err # ErrChallengeResponseRequired
                  /\ r.challenge = authChallenges[id]
                  /\ id \notin DOMAIN r.chals
                  /\ ValidateAuth(r.chals, db[u], EmptyResponse, StoredPin(u)).err
                        = ErrChallengeResponseRequired

\* A challenge issued to "testusername" is outstanding, and the correct PIN
\* with an empty response is answered with the signature error.
C15_Witness ==
    /\ HasKey("testusername")
    /\ db["testusername"].s.ID \in DOMAIN authChallenges
    /\ fetched[authChallenges[db["testusername"].s.ID]] = 0
    /\ ValidateAuth(authChallenges, db["testusername"], EmptyResponse,
                    StoredPin("testusername")).err = ErrSignature

\* The change-PIN JWTs a client can present to ChangePin: signed by a
\* client key, or carrying no signature.
SignedChangePins ==
    {changePinJWT(k, old, new) : k \in ClientKeys \cup {NoKey}, old \in Pins, new \in Pins}

\* C16: ChangePin succeeds only when the secrets hold a client key, the JWT
\* is signed by that key and its old PIN is the stored PIN.  A JWT signed by
\* another key, or presented for secrets without a key (ErrKeyNotFound),
\* is refused and no blob is returned; no user without a key has ever had
\* the PIN changed.
C16_ChangePinNeedsStoredKeyAndOldPin ==
    /\ \A u \in Users : \A jwtt \in SignedChangePins :
          LET r == ChangePin(db[u], jwtt, nextID) IN
          /\ r.err = OK =>
                /\ HasKey(u)
                /\ jwtt.key = db[u].s.PublicKey
                /\ PinMatches(db[u], jwtt.OldPin)
                /\ r.secrets.sealed
          /\ (~HasKey(u) \/ jwtt.key # db[u].s.PublicKey) =>
                r.err # OK /\ r.secrets = EmptyBlob
          /\ (db[u].sealed /\ ~HasKey(u)) => r.err = ErrKeyNotFound
          /\ (HasKey(u) /\ jwtt.key = db[u].s.PublicKey /\ jwtt.OldPin = StoredPin(u)
                /\ jwtt.NewPin # TooLongPin) => r.err = OK
    /\ \A u \in Users : pinEpoch[u] > 0 => HasKey(u)

\* The PIN of "testusername" has been changed by a JWT under the stored key;
\* the same request signed by the other client key is refused, and so is one
\* for "legacyuser", who holds no key.
C16_Witness ==
    /\ pinEpoch["testusername"] = 1
    /\ StoredPin("testusername") = OtherPin
    /\ ~HasKey("legacyuser")
    /\ \E k \in ClientKeys \ {db["testusername"].s.PublicKey} :
          ChangePin(db["testusername"], changePinJWT(k, OtherPin, TestPin), nextID).err
             = ErrJWTParse
    /\ ChangePin(db["legacyuser"],
                 changePinJWT(ClientKey, StoredPin("legacyuser"), OtherPin), nextID).err
          = ErrKeyNotFound

\* C17: a ChangePin from the stored PIN p to q takes effect.  On the blob
\* it returns q is the PIN and p, if different, is refused with
\* ErrInvalidPin, by the PIN check and by a further ChangePin alike; a
\* ChangePin back from q to p on that blob succeeds and restores p.
C17_ChangePinChains ==
    \A u \in EnrollUsers : \A q \in Pins \ {TooLongPin} :
        HasKey(u) =>
            LET p == StoredPin(u)
                k == db[u].s.PublicKey
                r1 == ChangePin(db[u], changePinJWT(k, p, q), nextID)
                r2 == ChangePin(r1.secrets, changePinJWT(k, q, p), nextID + 1) IN
            /\ r1.err = OK
            /\ PinMatches(r1.secrets, q)
            /\ decryptUserSecretsIfPinOK(r1.secrets, q).err = OK
            /\ p # q =>
                  /\ decryptUserSecretsIfPinOK(r1.secrets, p).err = ErrInvalidPin
                  /\ ValidateAuth(authChallenges, r1.secrets, EmptyResponse, p).err
                        = ErrInvalidPin
                  /\ ChangePin(r1.secrets, changePinJWT(k, p, q), nextID + 1).err
                        = ErrInvalidPin
            /\ r2.err = OK
            /\ PinMatches(r2.secrets, p)
            /\ p # q => decryptUserSecretsIfPinOK(r2.secrets, q).err = ErrInvalidPin
            /\ r2.secrets.s.ID = nextID + 1
            /\ r2.secrets.s.PublicKey = k
            /\ r2.secrets.s.KeyshareSecret = db[u].s.KeyshareSecret

\* "testusername", enrolled with a client key, has changed PIN twice and
\* holds PIN 12345, which a third change would take to 54321.
C17_Witness ==
    /\ HasKey("testusername")
    /\ pinEpoch["testusername"] = 2
    /\ StoredPin("testusername") = TestPin
    /\ db["testusername"].s.ID = 3
    /\ PinMatches(ChangePin(db["testusername"],
                            changePinJWT(ClientKey, TestPin, OtherPin), nextID).secrets,
                  OtherPin)

\* The key-id lists with a key the core does not trust in them.
UntrustedKeyIDLists ==
    {l \in SUBSET (KeyIDs \cup {"test.unknown"}) : ~(l \subseteq trustedKeys)}

\* C18: with any key id outside trustedKeys in the list, GenerateCommitments
\* fails with ErrKeyNotFound and commitmentData is left as it was, a valid
\* access token notwithstanding; GenerateResponse with a key id outside
\* trustedKeys (and a challenge within bounds) fails with ErrKeyNotFound and
\* leaves commitmentData, the commit asked for included.
C18_UntrustedKeyNotFound ==
    \A u \in Users : \A jwt \in Presentable(u) :
        LET t == <<now, now, now>> IN
        /\ \A l \in UntrustedKeyIDLists :
              LET g == GenerateCommitments(commitmentData, db[u], jwt, l, nextCommit, t) IN
              /\ g.err = ErrKeyNotFound
              /\ g.commitID = NoCommit
              /\ g.cd = commitmentData
        /\ \A keyID \in (KeyIDs \cup {"test.unknown"}) \ trustedKeys :
              \A c \in CommitIDs :
                 LET r == GenerateResponse(commitmentData, db[u], jwt, c, ValidChallenge,
                                           keyID, t) IN
                 /\ r.err = ErrKeyNotFound
                 /\ r.proofP = NoProofP
                 /\ r.cd = commitmentData

\* "legacyuser" holds a valid access token and one commit is pending: with
\* the trusted key alone a second commit would be stored, with an untrusted
\* key beside it none is, and the pending commit is not answered under an
\* untrusted key.
C18_Witness ==
    /\ DOMAIN commitmentData = {1}
    /\ nextCommit = 2
    /\ \E m \in minted :
          LET t == <<now, now, now>> IN
          /\ m.user = "legacyuser"
          /\ verifyAccess(db[m.user], m.jwt, now, now, now).err = OK
          /\ GenerateCommitments(commitmentData, db[m.user], m.jwt, {"test.test-3"},
                                 nextCommit, t).err = OK
          /\ GenerateCommitments(commitmentData, db[m.user], m.jwt,
                                 {"test.test-3", "test.untrusted-1"}, nextCommit, t).err
                = ErrKeyNotFound
          /\ GenerateResponse(commitmentData, db[m.user], m.jwt, 1, ValidChallenge,
                              "test.untrusted-1", t).err = ErrKeyNotFound

\* Challenges around the bounds: 0, 1, 2^Lh - 1 and 2^Lh by their bit
\* lengths, and the negatives -1, -(2^Lh - 1) and -(2^Lh).
BoundaryChallenges ==
    {c \in [neg : BOOLEAN, bitLen : {0, 1, Lh, Lh + 1}] : ~(c.neg /\ c.bitLen = 0)}

\* C19: GenerateResponse refuses a challenge with ErrInvalidChallenge
\* exactly when it is negative or longer than Lh bits, whatever the token
\* and key and whether or not the commit id is pending, and then leaves
\* commitmentData alone.  The challenges
\* 0 and 2^Lh - 1 (Lh bits) pass: with a valid token, a trusted key and a
\* pending commit they are answered with the ProofP over that challenge.
C19_ChallengeBounds ==
    \A u \in Users : \A jwt \in Presentable(u) :
        LET t == <<now, now, now>> IN
        /\ \A chal \in BoundaryChallenges, keyID \in KeyIDs :
              \A c \in DOMAIN commitmentData \cup {nextCommit} :
                 IF chal.neg \/ chal.bitLen > Lh
                 THEN GenerateResponse(commitmentData, db[u], jwt, c, chal, keyID, t)
                         = [err |-> ErrInvalidChallenge, proofP |-> NoProofP,
                            cd |-> commitmentData]
                 ELSE GenerateResponse(commitmentData, db[u], jwt, c, chal, keyID, t).err
                         # ErrInvalidChallenge
        /\ \A chal \in {ZeroChallenge, ValidChallenge} : \A c \in DOMAIN commitmentData :
              verifyAccess(db[u], jwt, now, now, now).err = OK =>
                 LET r == GenerateResponse(commitmentData, db[u], jwt, c, chal,
                                           "test.test-3", t) IN
                 r.err = OK /\ r.proofP.challenge = chal

\* A handler has answered the challenge 2^Lh - 1 with a ProofP, while
\* another commit is pending that the challenge 0 would be answered for and
\* the challenge 2^Lh would not.
C19_Witness ==
    \E p \in Procs : \E m \in minted : \E c \in DOMAIN commitmentData :
        LET t == <<now, now, now>> IN
        /\ procs[p].pc = "done" /\ procs[p].err = OK
        /\ procs[p].proofP.challenge = ValidChallenge
        /\ GenerateResponse(commitmentData, db[m.user], m.jwt, c, ZeroChallenge,
                            "test.test-3", t).err = OK
        /\ GenerateResponse(commitmentData, db[m.user], m.jwt, c, TooLongChallenge,
                            "test.test-3", t).err = ErrInvalidChallenge

\* C20: a ChangePin that fails returns its error and no blob: ErrDecrypt
\* for bytes that are no sealed blob, the parse error for a JWT not signed
\* by the stored key, ErrInvalidPin for a wrong old PIN, ErrPinTooLong for a
\* new PIN that does not fit.  So until a ChangePin succeeds the user's
\* stored PIN and ID are the ones they started with, whatever has failed
\* meanwhile, and every unexpired token minted since the last successful
\* change is accepted.
C20_FailedChangePinChangesNothing ==
    /\ \A u \in Users : \A jwtt \in SignedChangePins :
          LET r == ChangePin(db[u], jwtt, nextID) IN
          /\ r.err # OK => r.secrets = EmptyBlob
          /\ ~db[u].sealed => r.err = ErrDecrypt
          /\ (HasKey(u) /\ jwtt.key # db[u].s.PublicKey) => r.err = ErrJWTParse
          /\ (HasKey(u) /\ jwtt.key = db[u].s.PublicKey /\ jwtt.OldPin # StoredPin(u)) =>
                /\ r.err # OK
                /\ jwtt.OldPin # TooLongPin => r.err = ErrInvalidPin
          /\ (HasKey(u) /\ jwtt.key = db[u].s.PublicKey /\ jwtt.OldPin = StoredPin(u)
                /\ jwtt.NewPin = TooLongPin) => r.err = ErrPinTooLong
    /\ \A u \in Users :
          /\ db[u].sealed = InitDB[u].sealed
          /\ pinEpoch[u] = 0 =>
                /\ db[u].s.Pin = InitDB[u].s.Pin
                /\ db[u].s.ID = InitDB[u].s.ID
                /\ db[u].s.KeyshareSecret = InitDB[u].s.KeyshareSecret
          /\ InitDB[u].sealed => PinMatches(db[u], StoredPin(u))
    /\ \A m \in minted :
          (m.epoch = pinEpoch[m.user] /\ now < m.jwt.exp) =>
             verifyAccess(db[m.user], m.jwt, now, now, now).err = OK

\* Time has passed since "testusername" was given a token; no ChangePin of
\* theirs has succeeded, each kind of failing ChangePin is at hand, and the
\* token is accepted and the PIN is the first one.
C20_Witness ==
    /\ now > 0
    /\ pinEpoch["testusername"] = 0
    /\ StoredPin("testusername") = TestPin
    /\ \E m \in minted :
          /\ m.user = "testusername" /\ m.by = "ValidateAuth"
          /\ verifyAccess(db[m.user], m.jwt, now, now, now).err = OK
    /\ ChangePin(db["testusername"], changePinJWT(ClientKey, OtherPin, TestPin),
                 nextID).err = ErrInvalidPin
    /\ ChangePin(db["testusername"], changePinJWT(ClientKey, TestPin, TooLongPin),
                 nextID).err = ErrPinTooLong
    /\ ChangePin(db["testusername"], changePinJWT(OtherKey, TestPin, OtherPin),
                 nextID).err = ErrJWTParse
    /\ ChangePin(db[""], changePinJWT(ClientKey, TestPin, OtherPin), nextID).err
          = ErrDecrypt

\* The access token m is accepted for its user now.
ValidNow(m) == verifyAccess(db[m.user], m.jwt, now, now, now).err = OK

\* C21: a GenerateResponse that names a pending commit id and is refused for
\* its challenge, its key id or its access token returns that error and
\* leaves commitmentData as it was; the commit id is then still answered,
\* from the same commit, for a valid token of that user, challenge and key.  No commit id
\* handed out has left the store without having been answered.
C21_RefusedResponseKeepsCommit ==
    /\ \A c \in 1..(nextCommit - 1) : succ[c] = 0 => c \in DOMAIN commitmentData
    /\ \A u \in Users : \A jwt \in Presentable(u) :
          \A chal \in ProofChallenges \cup {ZeroChallenge}, keyID \in KeyIDs :
             \A c \in DOMAIN commitmentData :
                LET t == <<now, now, now>>
                    v == validateResponseRequest(db[u], jwt, chal, keyID, t)
                    r == GenerateResponse(commitmentData, db[u], jwt, c, chal, keyID, t) IN
                /\ (chal.neg \/ chal.bitLen > Lh \/ keyID \notin trustedKeys
                      \/ ~(\E m \in minted : m.jwt = jwt /\ m.user = u /\ ValidNow(m)))
                     => v.err # OK
                /\ v.err # OK =>
                      /\ r.err = v.err
                      /\ r.proofP = NoProofP
                      /\ r.cd = commitmentData
                      /\ \A m \in minted : (m.user = u /\ ValidNow(m)) =>
                            LET r2 == GenerateResponse(r.cd, db[m.user], m.jwt, c,
                                                       ValidChallenge, "test.test-3", t) IN
                            r2.err = OK /\ r2.proofP.commit = commitmentData[c]

\* A commit is pending, one token has expired and another is accepted: the
\* response is refused for the expired token, for a forged one, for a
\* challenge of Lh + 1 bits and for an untrusted key.
C21_Witness ==
    \E c \in DOMAIN commitmentData : \E m, x \in minted :
        LET t == <<now, now, now>> IN
        /\ ValidNow(m)
        /\ x.user = m.user /\ x.epoch = pinEpoch[x.user] /\ now >= x.jwt.exp
        /\ GenerateResponse(commitmentData, db[x.user], x.jwt, c, ValidChallenge,
                            "test.test-3", t).err # OK
        /\ GenerateResponse(commitmentData, db[m.user], MalformedJWT, c, ValidChallenge,
                            "test.test-3", t).err = ErrInvalidJWT
        /\ GenerateResponse(commitmentData, db[m.user], m.jwt, c, TooLongChallenge,
                            "test.test-3", t).err = ErrInvalidChallenge
        /\ GenerateResponse(commitmentData, db[m.user], m.jwt, c, ValidChallenge,
                            "test.untrusted-1", t).err = ErrKeyNotFound

\* C25: a pending commit is answered for whoever names its id.  A commit
\* opened by one user with their token is answered by GenerateResponse for
\* another user with that user's own secrets and token: the ProofP is over
\* the first user's commit and the second user's keyshare secret, the entry
\* is deleted, and the first user's GenerateResponse then fails with
\* ErrUnknownCommit.  The same holds of every commit pending in the store,
\* all of them opened by SessionOwner.
C25_CommitNotBoundToUser ==
    LET t == <<now, now, now>>
        answer(cd, m, c) ==
            GenerateResponse(cd, db[m.user], m.jwt, c, ValidChallenge, "test.test-3", t) IN
    /\ \A a, b \in minted :
          (ValidNow(a) /\ ValidNow(b) /\ a.user # b.user) =>
             LET g == GenerateCommitments(commitmentData, db[a.user], a.jwt,
                                          {"test.test-3"}, nextCommit, t)
                 r1 == answer(g.cd, b, g.commitID)
                 r2 == answer(r1.cd, a, g.commitID) IN
             /\ g.err = OK
             /\ r1.err = OK
             /\ r1.proofP.commit = g.cd[g.commitID]
             /\ r1.proofP.secret = db[b.user].s.KeyshareSecret
             /\ g.commitID \notin DOMAIN r1.cd
             /\ r2.err = ErrUnknownCommit
    /\ \A c \in DOMAIN commitmentData : \A a, b \in minted :
          (ValidNow(a) /\ ValidNow(b) /\ a.user = SessionOwner /\ b.user # SessionOwner) =>
             /\ answer(commitmentData, b, c).err = OK
             /\ answer(commitmentData, b, c).proofP.secret # db[SessionOwner].s.KeyshareSecret
             /\ answer(answer(commitmentData, b, c).cd, a, c).err = ErrUnknownCommit
    /\ \A p \in Procs :
          (procs[p].pc = "done" /\ procs[p].err = OK) =>
             /\ procs[p].commitID \notin DOMAIN commitmentData
             /\ \A a \in minted : ValidNow(a) =>
                   answer(commitmentData, a, procs[p].commitID).err = ErrUnknownCommit

\* Commit 1, opened by "legacyuser", has been answered for "testusername"
\* with the keyshare secret of "testusername", and the call of "legacyuser"
\* for it, validated while it was pending, has failed with ErrUnknownCommit.
C25_Witness ==
    \E p, q \in Procs :
        /\ procs[p].pc = "done" /\ procs[p].err = OK /\ procs[p].commitID = 1
        /\ procs[p].proofP.secret = db["testusername"].s.KeyshareSecret
        /\ procs[p].proofP.commit = 1
        /\ procs[q].pc = "done" /\ procs[q].err = ErrUnknownCommit
        /\ procs[q].commitID = 1 /\ procs[q].pend
        /\ procs[q].s = db[SessionOwner].s
        /\ succ[1] = 1

\* The responses a client can make up: a signature by a client key, or
\* none, over any challenge issued so far or to come, and any PIN.
AnyResponses ==
    [key : ClientKeys \cup {NoKey}, challenge : 0..nextChallenge, pin : Pins \cup {""}]

\* C22: for a user with a key and an outstanding challenge, ValidateAuth
\* with the correct PIN and a response that is no valid signature over the
\* challenge and PIN fails and deletes the challenge.  The valid signature
\* over that challenge, which would have passed, then fails with
\* ErrChallengeResponseRequired; after a further GenerateChallenge a valid
\* signature over the new challenge passes and one over the old does not.
\* A challenge that has been fetched is in the store no more.
C22_ChallengeConsumedBeforeVerify ==
    /\ \A u \in Users :
          (HasKey(u) /\ db[u].s.ID \in DOMAIN authChallenges) =>
             LET id == db[u].s.ID
                 ch == authChallenges[id]
                 p == StoredPin(u)
                 good == SignedResponse(u, ch, p) IN
             /\ ValidateAuth(authChallenges, db[u], good, p).err = OK
             /\ \A bad \in AnyResponses \ {good} :
                   LET r1 == ValidateAuth(authChallenges, db[u], bad, p)
                       r2 == ValidateAuth(r1.chals, db[u], good, p)
                       g == GenerateChallenge(r1.chals, db[u], nextChallenge)
                       r3 == ValidateAuth(g.chals, db[u],
                                          SignedResponse(u, nextChallenge, p), p)
                       r4 == ValidateAuth(g.chals, db[u], good, p) IN
                   /\ r1.err # OK /\ r1.jwt = NoJWT
                   /\ r1.challenge = ch
                   /\ id \notin DOMAIN r1.chals
                   /\ r2.err = ErrChallengeResponseRequired /\ r2.jwt = NoJWT
                   /\ g.err = OK /\ g.challenge = nextChallenge
                   /\ r3.err = OK /\ r3.jwt # NoJWT
                   /\ r4.err # OK
    /\ \A ch \in 1..(nextChallenge - 1) :
          fetched[ch] >= 1 => \A id \in DOMAIN authChallenges : authChallenges[id] # ch

\* The one challenge, issued to "testusername", has been consumed by a
\* ValidateAuth that gave no token, and the valid signature over it is now
\* answered ErrChallengeResponseRequired.
C22_Witness ==
    /\ HasKey("testusername") /\ ~HasKey("legacyuser")
    /\ pinEpoch["testusername"] = 0
    /\ nextChallenge = 2
    /\ fetched[1] = 1
    /\ authChallenges = << >>
    /\ ~(\E m \in minted : m.user = "testusername")
    /\ ValidateAuth(authChallenges, db["testusername"],
                    SignedResponse("testusername", 1, StoredPin("testusername")),
                    StoredPin("testusername")).err = ErrChallengeResponseRequired

\* C23: a ValidateAuth refused for its PIN (ErrInvalidPin for a PIN other
\* than the stored one) or for secrets that do not decrypt consumes no
\* challenge and leaves authChallenges as it was, whatever response came
\* with it; the user's outstanding challenge is there still, and the
\* correct PIN with the valid signature over it then passes.  The latest
\* challenge issued is in the store until a ValidateAuth has fetched it.
C23_FailedPinKeepsChallenge ==
    /\ \A u \in Users, pin \in Pins : \A response \in AnyResponses :
          LET d == decryptUserSecretsIfPinOK(db[u], pin)
              r == ValidateAuth(authChallenges, db[u], response, pin) IN
          /\ ~db[u].sealed => d.err = ErrDecrypt
          /\ (db[u].sealed /\ pin \notin {StoredPin(u), TooLongPin}) => d.err = ErrInvalidPin
          /\ (db[u].sealed /\ pin = TooLongPin) => d.err # OK
          /\ d.err # OK =>
                /\ r.err = d.err /\ r.jwt = NoJWT
                /\ r.challenge = Nil
                /\ r.chals = authChallenges
                /\ (HasKey(u) /\ db[u].s.ID \in DOMAIN authChallenges) =>
                      LET ch == authChallenges[db[u].s.ID]
                          r2 == ValidateAuth(r.chals, db[u],
                                             SignedResponse(u, ch, StoredPin(u)),
                                             StoredPin(u)) IN
                      r2.err = OK /\ r2.jwt # NoJWT /\ r2.challenge = ch
    /\ (nextChallenge > 1 /\ fetched[nextChallenge - 1] = 0) =>
          \E id \in DOMAIN authChallenges : authChallenges[id] = nextChallenge - 1

\* "legacyuser" has verified their PIN since and the challenge of
\* "testusername" is outstanding still:
\* a wrong PIN is answered ErrInvalidPin, with a valid signature over the
\* challenge and that PIN or without, and the correct PIN with its signature
\* passes.
C23_Witness ==
    LET u == "testusername"
        id == db[u].s.ID IN
    /\ HasKey(u) /\ StoredPin(u) = TestPin
    /\ id \in DOMAIN authChallenges /\ fetched[authChallenges[id]] = 0
    /\ \E m \in minted : m.user = "legacyuser"
    /\ ValidateAuth(authChallenges, db[u], SignedResponse(u, authChallenges[id], OtherPin),
                    OtherPin).err = ErrInvalidPin
    /\ ValidateAuth(authChallenges, db[u], EmptyResponse, OtherPin).err = ErrInvalidPin
    /\ ValidateAuth(authChallenges, db[u], SignedResponse(u, authChallenges[id], TestPin),
                    TestPin).err = OK

\* The challenges in the store.
Outstanding == {authChallenges[id] : id \in DOMAIN authChallenges}

\* C24: authChallenges holds one challenge per ID, the one issued last for
\* it.  A further GenerateChallenge for a user whose challenge is outstanding
\* puts the new challenge in the place of the old and adds no entry; then,
\* and in every state, the correct PIN passes ValidateAuth only with the
\* signature over the challenge now stored under the user's ID, and a
\* signature over any earlier challenge fails.  A challenge leaves the store
\* unfetched only when a later one has been issued.
C24_LatestChallengeOnly ==
    /\ Cardinality(Outstanding) = Cardinality(DOMAIN authChallenges)
    /\ \A ch \in 1..(nextChallenge - 1) :
          (fetched[ch] = 0 /\ ch \notin Outstanding) => ch < nextChallenge - 1
    /\ \A u \in Users : HasKey(u) =>
          LET id == db[u].s.ID
              p == StoredPin(u)
              passes(chals, ch) ==
                  ValidateAuth(chals, db[u], SignedResponse(u, ch, p), p).err = OK
              g == GenerateChallenge(authChallenges, db[u], nextChallenge) IN
          /\ \A ch \in 1..(nextChallenge - 1) :
                passes(authChallenges, ch) <=>
                   (id \in DOMAIN authChallenges /\ authChallenges[id] = ch)
          /\ g.err = OK /\ g.challenge = nextChallenge
          /\ DOMAIN g.chals = DOMAIN authChallenges \cup {id}
          /\ g.chals[id] = nextChallenge
          /\ \A i \in DOMAIN authChallenges \ {id} : g.chals[i] = authChallenges[i]
          /\ passes(g.chals, nextChallenge)
          /\ \A ch \in 1..(nextChallenge - 1) : ~passes(g.chals, ch)

\* "testusername" was given challenge 1 and then, before any ValidateAuth
\* had fetched it, challenge 2: the store holds challenge 2 alone, the
\* signature over challenge 2 passes and the one over challenge 1 fails.
C24_Witness ==
    LET u == "testusername"
        p == StoredPin(u) IN
    /\ HasKey(u) /\ ~HasKey("legacyuser")
    /\ nextChallenge = 3
    /\ fetched[1] = 0 /\ fetched[2] = 0
    /\ DOMAIN authChallenges = {db[u].s.ID}
    /\ authChallenges[db[u].s.ID] = 2
    /\ ValidateAuth(authChallenges, db[u], SignedResponse(u, 2, p), p).err = OK
    /\ ValidateAuth(authChallenges, db[u], SignedResponse(u, 1, p), p).err = ErrSignature

\* The IDs under which a challenge is stored and which are no user's ID.
OrphanIDs == DOMAIN authChallenges \ {db[u].s.ID : u \in Users}

\* C26: a challenge outstanding when ChangePin succeeds is of no use on the
\* new blob: with the new PIN and a signature over that challenge
\* ValidateAuth fails with ErrChallengeResponseRequired, and neither it nor a
\* GenerateChallenge or a further ChangePin on the new blob removes the
\* entry, which stays under the old ID.  In every state, an entry under an
\* ID that is no user's has not been fetched and its challenge passes for
\* no user.
C26_OldChallengeDeadAfterChangePin ==
    /\ \A u \in Users :
          (HasKey(u) /\ db[u].s.ID \in DOMAIN authChallenges) =>
             \A q \in Pins \ {TooLongPin} :
                LET id == db[u].s.ID
                    ch == authChallenges[id]
                    k == db[u].s.PublicKey
                    c == ChangePin(db[u], changePinJWT(k, StoredPin(u), q), nextID)
                    r == ValidateAuth(authChallenges, c.secrets,
                                      [key |-> k, challenge |-> ch, pin |-> q], q)
                    g == GenerateChallenge(authChallenges, c.secrets, nextChallenge) IN
                /\ c.err = OK
                /\ c.secrets.s.ID # id
                /\ r.err = ErrChallengeResponseRequired /\ r.jwt = NoJWT
                /\ r.challenge = Nil
                /\ r.chals = authChallenges
                /\ g.err = OK /\ id \in DOMAIN g.chals /\ g.chals[id] = ch
    /\ \A id \in OrphanIDs :
          /\ fetched[authChallenges[id]] = 0
          /\ \A u \in Users, pin \in Pins, k \in ClientKeys :
                LET r == ValidateAuth(authChallenges, db[u],
                                      [key |-> k, challenge |-> authChallenges[id],
                                       pin |-> pin], pin) IN
                /\ HasKey(u) => r.err # OK
                /\ id \in DOMAIN r.chals /\ r.chals[id] = authChallenges[id]
                /\ (HasKey(u) /\ pin = StoredPin(u)
                      /\ db[u].s.ID \notin DOMAIN authChallenges) =>
                        r.err = ErrChallengeResponseRequired

\* "testusername" was given challenge 1 under ID 2 and has since changed PIN
\* to 54321 (ID 3): the entry is in the store still, unfetched, and the new
\* PIN with a signature over challenge 1 is answered
\* ErrChallengeResponseRequired.
C26_Witness ==
    LET u == "testusername" IN
    /\ pinEpoch[u] = 1 /\ StoredPin(u) = OtherPin
    /\ db[u].s.ID = 3
    /\ 2 \in OrphanIDs /\ authChallenges[2] = 1
    /\ fetched[1] = 0
    /\ ValidateAuth(authChallenges, db[u], SignedResponse(u, 1, OtherPin), OtherPin).err
          = ErrChallengeResponseRequired

\* C27: a successful ChangePin returns secrets with the keyshare secret and
\* the client key of its input, the new PIN and the fresh ID; a successful
\* SetUserPublicKey returns secrets with the keyshare secret, the PIN and the
\* ID of its input and the key given; the same holds when they are applied to
\* secrets NewUserSecrets has just created.  Hence in every state each user's
\* keyshare secret is the one the DB started with, and a key that was set is
\* the key still.
C27_KeyshareSecretFixed ==
    /\ \A u \in Users :
          /\ db[u].sealed = InitDB[u].sealed
          /\ db[u].s.KeyshareSecret = InitDB[u].s.KeyshareSecret
          /\ InitDB[u].s.PublicKey # NoKey => db[u].s.PublicKey = InitDB[u].s.PublicKey
          /\ \A k \in ClientKeys, old \in Pins, new \in Pins :
                LET c == ChangePin(db[u], changePinJWT(k, old, new), nextID) IN
                c.err = OK =>
                   /\ c.secrets.sealed
                   /\ c.secrets.s.KeyshareSecret = db[u].s.KeyshareSecret
                   /\ c.secrets.s.PublicKey = db[u].s.PublicKey
                   /\ c.secrets.s.Pin = new
                   /\ c.secrets.s.ID = nextID
          /\ \A pin \in Pins, pk \in ClientKeys :
                LET r == SetUserPublicKey(db[u], pin, pk) IN
                r.err = OK =>
                   /\ r.secrets.sealed
                   /\ r.secrets.s.KeyshareSecret = db[u].s.KeyshareSecret
                   /\ r.secrets.s.Pin = db[u].s.Pin
                   /\ r.secrets.s.ID = db[u].s.ID
                   /\ r.secrets.s.PublicKey = pk
    /\ \A pin \in Pins \ {TooLongPin}, new \in Pins \ {TooLongPin}, pk \in ClientKeys,
          secret \in 1..MaxIDs :
          LET n == NewUserSecrets(pin, NoKey, secret, nextID)
              r == SetUserPublicKey(n.secrets, pin, pk)
              c == ChangePin(r.secrets, changePinJWT(pk, pin, new), nextID + 1) IN
          /\ n.err = OK /\ r.err = OK /\ c.err = OK
          /\ n.secrets.s.KeyshareSecret = secret
          /\ r.secrets.s.KeyshareSecret = secret
          /\ c.secrets.s.KeyshareSecret = secret
          /\ c.secrets.s.PublicKey = pk /\ c.secrets.s.Pin = new

\* "legacyuser" has registered a key and then changed PIN: the blob holds the
\* key, the new PIN, the third ID and the keyshare secret 1 it started with.
C27_Witness ==
    LET s == db["legacyuser"].s IN
    /\ pinEpoch["legacyuser"] = 1
    /\ s.PublicKey \in ClientKeys /\ InitDB["legacyuser"].s.PublicKey = NoKey
    /\ s.Pin = OtherPin /\ s.ID = 3
    /\ s.KeyshareSecret = InitDB["legacyuser"].s.KeyshareSecret
    /\ s.KeyshareSecret = 1

====
